---- MODULE Spec2Model ----
(***************************************************************************)
(* The DKG result ledger of the random beacon: the library                 *)
(* solidity/random-beacon/contracts/libraries/DKG.sol as a state machine.  *)
(* One state is the library's storage (Data), the chain's block number and *)
(* the outcome of the transaction that produced the state.  A transaction  *)
(* that reverts leaves the storage as it was; its revert message is kept   *)
(* in lastCall so that properties can speak about rejected calls.          *)
(***************************************************************************)
EXTENDS Integers, Sequences, FiniteSets, TLC

VARIABLES
  lib,          \* the library's compile-time constants (groupSize, ...)
  blockNumber,  \* block.number
  self,         \* DKG.Data storage
  lastCall,     \* the transaction that led to this state, and how it ended
  accepted,     \* history: number of results accepted since the last start
  session,      \* joinDKGIfEligible's inputs and the member index of the task
  pc,           \* where the member task (the goroutine of node.go 175) is
  loopCtx,      \* the retry loop's context
  attempts,     \* the attempts made so far, the current one last
  retryResult,  \* what retryLoop.start returned: result and err
  publicationCtx,         \* the publication's context
  dkgResultChannel,       \* DKGResultSubmitted events waiting to be received
  operatingMemberIndexes, \* the operating members the task resolved
  signers,      \* the wallet registry: the signers registered
  logged,       \* the log lines of the task's own goroutine
  env,          \* what the chain and the network answer to joinDKGIfEligible
  joinPc,       \* where the call of joinDKGIfEligible is
  broadcastChannel,       \* the session's broadcast channel and its filter
  tasks,        \* the member tasks joinDKGIfEligible started, by member index
  protocolLatch,          \* n.protocolLatch: the number of its holders
  walletRegistry,         \* n.walletRegistry: the signers in registration order
  registryMutex,          \* the registry's mutex: its holder, or 0
  managedGrant, \* ManagedGrant's storage and the token balances around it
  grantCall,    \* the call of ManagedGrant that led to this state
  rewards,      \* BeaconBackportRewards' storage
  token,        \* the reward token's balances
  operatorContract,       \* block.timestamp and the number of stale groups
  rewardsCall,  \* the call of the rewards contract that led to this state
  signingGroup, \* createSigningGroupController's call and the controller
  maintainer    \* the wallet maintainer's control loop and its two tickers

ledgerVars == <<lib, self, lastCall, accepted>>

joinVars ==
  <<env, joinPc, broadcastChannel, tasks, protocolLatch, walletRegistry,
    registryMutex>>

nodeVars ==
  <<session, pc, loopCtx, attempts, retryResult, publicationCtx,
    dkgResultChannel, operatingMemberIndexes, signers, logged>>

grantVars == <<managedGrant, grantCall>>

rewardsVars == <<rewards, token, operatorContract, rewardsCall>>

appVars == <<grantVars, rewardsVars, signingGroup, maintainer>>

coreVars == <<ledgerVars, blockNumber, nodeVars, joinVars>>

vars == <<coreVars, appVars>>

----------------------------------------------------------------------------
(* Bounds of the model. *)

\* start() is called at a block in 1..MaxStartBlock.
MaxStartBlock == 1
\* setResultSubmissionEligibilityDelay is called with a value in 0..MaxDelay.
MaxDelay == 2
\* setResultChallengePeriodLength is called with a value in 0..MaxPeriod.
MaxPeriod == 2
\* Blocks mined after the DKG timeout, and after an accepted result.
MaxAfter == 1

\* The build of the timeout boundary example: key generation window, group
\* size, group threshold and eligibility delay.
BoundaryWindow == 50
BoundaryGroupSize == 4
BoundaryGroupThreshold == 3
BoundaryDelay == 10

----------------------------------------------------------------------------
(* Compile-time constants, DKG.sol lines 12-28. *)

Deployed ==
  [groupSize |-> 64,
   groupThreshold |-> 33,
   offchainDkgTime |-> 5 * (1 + 5) + 2 * (1 + 10) + 20]

Boundary ==
  [groupSize |-> BoundaryGroupSize,
   groupThreshold |-> BoundaryGroupThreshold,
   offchainDkgTime |-> BoundaryWindow]

groupSize == lib.groupSize

groupThreshold == lib.groupThreshold

\* Faulty variant: the half of the margin is rounded up.
signatureThresholdCeil ==
  groupThreshold + (groupSize - groupThreshold + 1) \div 2

signatureThreshold == groupThreshold + (groupSize - groupThreshold) \div 2

offchainDkgTime == lib.offchainDkgTime

\* Lengths the code fixes: a signature has 65 bytes, a public key 128.
SignatureLength == 65
PublicKeyLength == 128

----------------------------------------------------------------------------
(* enum State, and its order of declaration. *)

State == <<"IDLE", "KEY_GENERATION", "AWAITING_RESULT", "CHALLENGE">>

StateOrdinal(s) == CHOOSE k \in 1..Len(State) : State[k] = s

\* Faulty variant: the submitted result is not looked at, so the phase never
\* becomes CHALLENGE.
CurrentStateAtNoChallenge(d, now) ==
  IF d.startBlock > 0
    THEN IF now > d.startBlock + offchainDkgTime
           THEN "AWAITING_RESULT"
           ELSE "KEY_GENERATION"
    ELSE "IDLE"

\* Faulty variant: the key generation window ends one block early.
CurrentStateAtInclusive(d, now) ==
  IF d.startBlock > 0
    THEN IF now >= d.startBlock + offchainDkgTime
           THEN IF d.submittedResultBlock > 0
                  THEN "CHALLENGE"
                  ELSE "AWAITING_RESULT"
           ELSE "KEY_GENERATION"
    ELSE "IDLE"

(* currentState(self) at block `now`. *)
CurrentStateAt(d, now) ==
  IF d.startBlock > 0
    THEN IF now > d.startBlock + offchainDkgTime
           THEN IF d.submittedResultBlock > 0
                  THEN "CHALLENGE"
                  ELSE "AWAITING_RESULT"
           ELSE "KEY_GENERATION"
    ELSE "IDLE"

currentState == CurrentStateAt(self, blockNumber)

\* Faulty variant: the publication time of the last member is left out.
HasDkgTimedOutAtShort(d, now) ==
  /\ CurrentStateAt(d, now) = "AWAITING_RESULT"
  /\ now > d.startBlock + offchainDkgTime
             + (groupSize - 1) * d.parameters.resultSubmissionEligibilityDelay

\* Faulty variant: the group size is left out.
HasDkgTimedOutAtOneSlot(d, now) ==
  /\ CurrentStateAt(d, now) = "AWAITING_RESULT"
  /\ now > d.startBlock + offchainDkgTime
             + d.parameters.resultSubmissionEligibilityDelay

(* hasDkgTimedOut(self) at block `now`. *)
HasDkgTimedOutAt(d, now) ==
  /\ CurrentStateAt(d, now) = "AWAITING_RESULT"
  /\ now > d.startBlock + offchainDkgTime
             + groupSize * d.parameters.resultSubmissionEligibilityDelay

hasDkgTimedOut == HasDkgTimedOutAt(self, blockNumber)

----------------------------------------------------------------------------
(* Addresses, hashes and signatures.  The operator of seat i of the        *)
(* selected group has address i; address 0 is no member's.  keccak256 is   *)
(* collision-free: a hash is the tuple of what was hashed.  A signature is *)
(* its signer and the digest signed; ECDSA.recover over another digest     *)
(* gives an address that is no member's.  A public key is its length in   *)
(* bytes and the key it encodes.                                           *)

ZeroHash == <<>>

Keccak(x) == <<"keccak256", x>>

ResultHash(groupPubKey, misbehaved, startBlock) ==
  Keccak(<<groupPubKey, misbehaved, startBlock>>)

Recover(digest, sig) == IF sig.digest = digest THEN sig.signer ELSE 0

\* signatures.length, in bytes
BytesLength(signatures) ==
  SignatureLength * Len(signatures.sigs) + signatures.extra

----------------------------------------------------------------------------
(* verify(): "ok", or the message of the first require that fails.  An     *)
(* array access out of bounds reverts with a panic, named after the array. *)

\* Iteration i of the loop of verify(): "ok", or the message of the require
\* that fails in it.  The iteration runs when every earlier one has passed,
\* so usedMemberIndices then marks the signing indices before position i:
\* `used` is usedMemberIndices[memberIndex - 1].
CheckSignature(r, digest, i) ==
  LET memberIndex == r.signingMemberIndices[i]
      used == \E j \in 1..(i - 1) : r.signingMemberIndices[j] = memberIndex
  IN
  IF ~(memberIndex > 0) THEN "Invalid index"
  ELSE IF ~(memberIndex <= Len(r.members)) THEN "Index out of range"
  ELSE IF ~(memberIndex - 1 < groupSize) THEN "Panic: usedMemberIndices"
  ELSE IF used THEN "Duplicate member index"
  ELSE IF r.members[memberIndex] # Recover(digest, r.signatures.sigs[i])
    THEN "Invalid signature"
  ELSE "ok"

\* Faulty variant: the signatures are counted but not looked at.
VerifySignaturesUnchecked(r, digest) == "ok"

\* The loop of verify(): the outcome of the first iteration that fails.
VerifySignatures(r, digest) ==
  LET signaturesCount == BytesLength(r.signatures) \div SignatureLength
      failing == {i \in 1..signaturesCount : CheckSignature(r, digest, i) # "ok"}
  IN IF failing = {} THEN "ok"
     ELSE CheckSignature(
            r, digest, CHOOSE i \in failing : \A j \in failing : i <= j)

\* Faulty variant: every member is eligible from the start of the session.
IsEligibleAlways(d, now, submitterMemberIndex) == now >= d.startBlock

\* The eligibility require of verify(): the submitter's window has opened.
IsEligible(d, now, submitterMemberIndex) ==
  LET T_init == d.startBlock + offchainDkgTime IN
  now >= T_init + (submitterMemberIndex - 1)
                    * d.parameters.resultSubmissionEligibilityDelay

Verify(d, now, sender, r) ==
  LET signaturesCount == BytesLength(r.signatures) \div SignatureLength IN
  IF ~(r.submitterMemberIndex > 0) THEN "Invalid submitter index"
  ELSE IF ~(r.submitterMemberIndex - 1 < Len(r.members))
    THEN "Panic: members"
  ELSE IF r.members[r.submitterMemberIndex] # sender
    THEN "Unexpected submitter index"
  ELSE IF ~IsEligible(d, now, r.submitterMemberIndex)
    THEN "Submitter not eligible"
  ELSE IF r.groupPubKey.length # PublicKeyLength
    THEN "Malformed group public key"
  ELSE IF ~(Len(r.misbehaved) <= groupSize - signatureThreshold)
    THEN "Malformed misbehaved bytes"
  ELSE IF ~(BytesLength(r.signatures) >= SignatureLength)
    THEN "Too short signatures array"
  ELSE IF BytesLength(r.signatures) % SignatureLength # 0
    THEN "Malformed signatures array"
  ELSE IF signaturesCount # Len(r.signingMemberIndices)
    THEN "Unexpected signatures count"
  ELSE IF ~(signaturesCount >= signatureThreshold) THEN "Too few signatures"
  ELSE IF ~(signaturesCount <= groupSize) THEN "Too many signatures"
  ELSE VerifySignatures(
         r, ResultHash(r.groupPubKey, r.misbehaved, d.startBlock))

\* Faulty variant: the timeout require is missing.
SubmitResultOutcomeNoTimeout(d, now, sender, r) ==
  IF CurrentStateAt(d, now) # "AWAITING_RESULT"
    THEN "current state is not AWAITING_RESULT"
  ELSE Verify(d, now, sender, r)

\* Faulty variant: verify is given the address of the claimed seat in place
\* of msg.sender.
SubmitResultOutcomeAnySender(d, now, sender, r) ==
  IF CurrentStateAt(d, now) # "AWAITING_RESULT"
    THEN "current state is not AWAITING_RESULT"
  ELSE IF HasDkgTimedOutAt(d, now) THEN "dkg timeout already passed"
  ELSE Verify(d, now,
              IF r.submitterMemberIndex \in DOMAIN r.members
                THEN r.members[r.submitterMemberIndex] ELSE sender,
              r)

(* submitResult(): "ok", or the message of the failing require. *)
SubmitResultOutcome(d, now, sender, r) ==
  IF CurrentStateAt(d, now) # "AWAITING_RESULT"
    THEN "current state is not AWAITING_RESULT"
  ELSE IF HasDkgTimedOutAt(d, now) THEN "dkg timeout already passed"
  ELSE Verify(d, now, sender, r)

\* Faulty variant: the IDLE require is missing.
StartOutcomeAnyState(d, now) == "ok"

(* start(): "ok", or the message of the failing require. *)
StartOutcome(d, now) ==
  IF CurrentStateAt(d, now) # "IDLE" THEN "current state is not IDLE" ELSE "ok"

\* Faulty variant: the IDLE require is missing.
SetParameterOutcomeAnyState(d, now, value) ==
  IF ~(value > 0) THEN "new value should be greater than zero" ELSE "ok"

(* The parameters' set functions: "ok", or the failing require's message. *)
SetParameterOutcome(d, now, value) ==
  IF CurrentStateAt(d, now) # "IDLE" THEN "current state is not IDLE"
  ELSE IF ~(value > 0) THEN "new value should be greater than zero"
  ELSE "ok"

----------------------------------------------------------------------------
(* The transactions sent to the ledger.  A submission is described by the  *)
(* claimed submitter, the number of signatures and how the result departs  *)
(* from a well-formed one; MkResult builds the Result struct from it.      *)

Flaws ==
  {"wrongSender", "shortMembers", "shortKey", "manyMisbehaved",
   "noSignatures", "extraByte", "countMismatch", "zeroIndex", "outOfRange",
   "beyondGroup", "dupIndex", "wrongSigner", "wrongDigest"}

\* Variants of a well-formed result.
Variants == {"none", "maxMisbehaved", "lastSigners"}

\* The claimed submitter indices: both ends of the group, its middle, and
\* the two values next to the range.
Submitters == {0, 1, groupSize \div 2, groupSize - 1, groupSize, groupSize + 1}

\* The well-formed result of every claimed submitter, and the variants and
\* the flawed results under the last seat.
Descs ==
  {[submitter |-> i, n |-> signatureThreshold, flaw |-> "none"] :
     i \in Submitters}
  \cup {[submitter |-> groupSize, n |-> n, flaw |-> "none"] :
          n \in {signatureThreshold - 1, signatureThreshold + 1, groupSize,
                 groupSize + 1}}
  \cup {[submitter |-> groupSize, n |-> signatureThreshold, flaw |-> f] :
          f \in Flaws \cup (Variants \ {"none"})}
  \cup {[submitter |-> 1, n |-> signatureThreshold, flaw |-> f] :
          f \in {"wrongSender", "dupIndex", "wrongSigner"}}

MkMembers(desc) ==
  IF desc.flaw = "shortMembers" THEN [i \in 1..2 |-> i]
  ELSE IF desc.flaw = "beyondGroup" THEN [i \in 1..(groupSize + 1) |-> i]
  ELSE IF desc.n > groupSize THEN [i \in 1..desc.n |-> i]
  ELSE [i \in 1..groupSize |-> i]

MkIndices(desc) ==
  LET base == IF desc.flaw = "lastSigners"
                THEN [i \in 1..desc.n |-> groupSize - desc.n + i]
                ELSE [i \in 1..desc.n |-> i]
  IN CASE desc.flaw = "noSignatures" -> <<>>
       [] desc.flaw = "zeroIndex" -> [base EXCEPT ![1] = 0]
       [] desc.flaw = "outOfRange" ->
            [base EXCEPT ![desc.n] = Len(MkMembers(desc)) + 1]
       [] desc.flaw = "beyondGroup" -> [base EXCEPT ![desc.n] = groupSize + 1]
       [] desc.flaw = "dupIndex" -> [base EXCEPT ![desc.n] = base[1]]
       [] desc.flaw = "countMismatch" -> Append(base, desc.n + 1)
       [] OTHER -> base

MkGroupPubKey(desc) ==
  [length |-> IF desc.flaw = "shortKey" THEN PublicKeyLength - 1
              ELSE PublicKeyLength,
   key |-> "K"]

MkMisbehaved(desc) ==
  CASE desc.flaw = "manyMisbehaved" ->
         [i \in 1..(groupSize - signatureThreshold + 1) |-> groupSize + 1 - i]
    [] desc.flaw = "maxMisbehaved" ->
         [i \in 1..(groupSize - signatureThreshold) |-> groupSize + 1 - i]
    [] OTHER -> <<>>

\* The signatures: signature i is made by the member at signing index i over
\* the result's hash, except for the flawed one.
MkSignatures(desc, startBlock) ==
  LET indices == MkIndices(desc)
      members == MkMembers(desc)
      count == IF desc.flaw = "noSignatures" THEN 0 ELSE desc.n
      digest ==
        ResultHash(MkGroupPubKey(desc), MkMisbehaved(desc), startBlock)
      honest(i) ==
        [signer |-> IF indices[i] \in DOMAIN members
                      THEN members[indices[i]] ELSE indices[i],
         digest |-> digest]
  IN [sigs |->
        [i \in 1..count |->
           IF i = count /\ desc.flaw = "wrongSigner"
             THEN [honest(i) EXCEPT !.signer = members[indices[1]]]
           ELSE IF i = count /\ desc.flaw = "wrongDigest"
             THEN [honest(i) EXCEPT !.digest =
                     ResultHash(MkGroupPubKey(desc), MkMisbehaved(desc),
                                startBlock + 1)]
           ELSE honest(i)],
      extra |-> IF desc.flaw = "extraByte" THEN 1 ELSE 0]

MkResult(desc, startBlock) ==
  [submitterMemberIndex |-> desc.submitter,
   groupPubKey |-> MkGroupPubKey(desc),
   misbehaved |-> MkMisbehaved(desc),
   signatures |-> MkSignatures(desc, startBlock),
   signingMemberIndices |-> MkIndices(desc),
   members |-> MkMembers(desc)]

\* msg.sender: the operator of the claimed seat, or of the next seat.
MkSender(desc) ==
  IF desc.flaw = "wrongSender" THEN (desc.submitter % groupSize) + 1
  ELSE IF desc.submitter = 0 THEN 1
  ELSE desc.submitter

----------------------------------------------------------------------------
(* The state machine.  Transactions run one after the other, any number   *)
(* of them in a block.  A transaction that reverts changes nothing in the  *)
(* storage: the model takes it as the last transaction of its block, so    *)
(* every transaction is tried in every storage state a block can reach.    *)

NoCall == [op |-> "none", arg |-> <<>>, outcome |-> "ok"]

\* nil, for an error and for a result.
Nil == "nil"

NilResult == [attempt |-> 0, groupPublicKey |-> "", operatingMemberIDs |-> {}]

----------------------------------------------------------------------------
(* ManagedGrant: the addresses and the grant it is deployed with. *)

ZeroAddress == 0

grantManager == 1

\* The accounts that can send a transaction; msg.sender is never zero.
Senders == 1..3

Addresses == {ZeroAddress} \cup Senders

\* The tokens of the grant that TokenGrant still holds at deployment.
MaxGrant == 2

NoGrantCall == [op |-> "none", sender |-> ZeroAddress, arg |-> <<>>,
                outcome |-> "ok"]

(* ManagedGrant's constructor: the grantee is set, no request is pending. *)
GrantDeployed(grantee, amount) ==
  [grantee |-> grantee,
   requestedNewGrantee |-> ZeroAddress,
   withdrawable |-> amount,
   received |-> [a \in Senders |-> 0]]

\* No ManagedGrant is modelled.
NoGrant ==
  /\ managedGrant = GrantDeployed(ZeroAddress, 0)
  /\ grantCall = NoGrantCall

----------------------------------------------------------------------------
(* BeaconBackportRewards: what it is deployed with. *)

termLength == 1

firstIntervalStart == 1

minimumKeepsPerInterval == 2

\* Percent of the unallocated rewards; 100 for every later interval.
intervalWeights == <<50>>

\* Group 0 is the last of interval 0, group 2 the last of interval 1.
lastGroupOfInterval == <<0, 2>>

\* Solidity's arrays start at index 0.
At(array, i) == array[i + 1]

(* lastInterval() *)
lastInterval == Len(lastGroupOfInterval) - 1

(* lastEligibleGroup() *)
lastEligibleGroup == At(lastGroupOfInterval, lastInterval)

Intervals == 0..lastInterval

Groups == 0..lastEligibleGroup

\* The keep identifiers of the calls: the groups and one index beyond.
Keeps == 0..(lastEligibleGroup + 1)

(* operatorContract.getGroupMembers: group g has g + 1 members. *)
getGroupMembers(g) == [i \in 1..(g + 1) |-> i]

Members == 1..(lastEligibleGroup + 1)

(* tokenStaking.beneficiaryOf *)
beneficiaryOf(member) == 10 + member

Beneficiaries == {beneficiaryOf(m) : m \in Members}

\* The account the constructor names as excessRecipient.
excessRecipient == 20

Recipients == Beneficiaries \cup {excessRecipient}

\* The tokens the funding account holds at deployment.
MaxFunds == 4

\* The last block.timestamp modelled.
MaxTime == 3

NoRewardsCall == [op |-> "none", arg |-> <<>>, outcome |-> "ok",
                  transfers |-> <<>>]

(* The constructors of Rewards and BeaconBackportRewards. *)
RewardsDeployed(excluded) ==
  [totalRewards |-> 0,
   unallocatedRewards |-> 0,
   paidOutRewards |-> 0,
   intervalAllocations |-> <<>>,
   claimed |-> {},
   keepsByInterval |-> [i \in Intervals |-> 0],
   intervalKeepsProcessed |-> [i \in Intervals |-> 0],
   excludedGroups |-> excluded]

\* The token before the contract is funded.
TokenInit ==
  [rewards |-> 0, funder |-> MaxFunds,
   balanceOf |-> [a \in Recipients |-> 0]]

\* No rewards contract is modelled.
NoRewards ==
  /\ rewards = RewardsDeployed({})
  /\ token = TokenInit
  /\ operatorContract = [timestamp |-> 0, stale |-> 0]
  /\ rewardsCall = NoRewardsCall

\* No signing group controller is modelled.
NoSigning ==
  signingGroup = [pc |-> "none", signers |-> 0, fails |-> "none",
                  controller |-> "nil", err |-> "nil", loops |-> <<>>,
                  signature |-> "nil"]

\* No wallet maintainer is modelled: its control loop is never started.
NoMaintainer ==
  maintainer = [pc |-> "none", ctx |-> "live",
                redemptionTicker |-> [due |-> 0, d |-> 0, C |-> 0],
                sweepTicker |-> [due |-> 0, d |-> 0, C |-> 0],
                runs |-> 0, running |-> 0, after |-> 0]

NoApp ==
  /\ NoGrant
  /\ NoRewards
  /\ NoSigning
  /\ NoMaintainer

\* No call of joinDKGIfEligible with several member tasks is modelled.
NoJoin ==
  /\ env = [selected |-> <<>>, preParamsCount |-> 0, fails |-> "none"]
  /\ joinPc = "none"
  /\ broadcastChannel = "none"
  /\ tasks = <<>>
  /\ protocolLatch = 0
  /\ walletRegistry = <<>>
  /\ registryMutex = 0

\* The member task as its goroutine starts: the retry loop has made no
\* attempt, no context is cancelled and the registry is empty.
TaskInit ==
  /\ pc = "retryLoop"
  /\ loopCtx = "active"
  /\ attempts = <<>>
  /\ retryResult = [result |-> NilResult, err |-> Nil]
  /\ publicationCtx = "none"
  /\ dkgResultChannel = <<>>
  /\ operatingMemberIndexes = {}
  /\ signers = {}
  /\ logged = {}

InitData(period, delay) ==
  [parameters |-> [resultChallengePeriodLength |-> period,
                   resultSubmissionEligibilityDelay |-> delay],
   startBlock |-> 0,
   submittedResultHash |-> ZeroHash,
   submittedResultBlock |-> 0]

\* The parameters are positive from construction on: the set functions
\* accept no other value.
Init ==
  /\ lib = Deployed
  /\ blockNumber = 1
  /\ self = InitData(1, 1)
  /\ lastCall = NoCall
  /\ accepted = 0
  /\ session = [seed |-> 1, startBlockNumber |-> 1, memberIndex |-> 1]
  /\ TaskInit
  /\ NoApp
  /\ NoJoin

InitBoundary ==
  /\ lib = Boundary
  /\ blockNumber = 1
  /\ self = InitData(1, BoundaryDelay)
  /\ lastCall = NoCall
  /\ accepted = 0
  /\ session = [seed |-> 1, startBlockNumber |-> 1, memberIndex |-> 1]
  /\ TaskInit
  /\ NoApp
  /\ NoJoin

\* The last block the model mines: MaxAfter blocks after the DKG timeout,
\* or after the block of the accepted result.
LastBlock ==
  IF self.startBlock = 0 THEN MaxStartBlock
  ELSE IF self.submittedResultBlock > 0
    THEN self.submittedResultBlock + MaxAfter
  ELSE self.startBlock + offchainDkgTime
         + groupSize * self.parameters.resultSubmissionEligibilityDelay
         + MaxAfter

(* A block is mined. *)
Tick ==
  /\ blockNumber < LastBlock
  /\ blockNumber' = blockNumber + 1
  /\ lastCall' = NoCall
  /\ UNCHANGED <<lib, self, accepted, nodeVars, joinVars, appVars>>

(* start(self) *)
StartEffect(d, now) ==
  IF StartOutcome(d, now) = "ok" THEN [d EXCEPT !.startBlock = now] ELSE d

Start ==
  /\ lastCall.outcome = "ok"
  /\ self' = StartEffect(self, blockNumber)
  /\ lastCall' = [op |-> "start", arg |-> <<>>,
                  outcome |-> StartOutcome(self, blockNumber)]
  /\ accepted' = IF StartOutcome(self, blockNumber) = "ok" THEN 0 ELSE accepted
  /\ UNCHANGED <<lib, blockNumber, nodeVars, joinVars, appVars>>

\* Faulty variant: the result is recorded before verify runs and a failing
\* verify does not undo the write.
SubmitResultEffectNoRevert(d, now, sender, r) ==
  IF /\ CurrentStateAt(d, now) = "AWAITING_RESULT"
     /\ ~HasDkgTimedOutAt(d, now)
    THEN [d EXCEPT !.submittedResultHash = Keccak(r),
                   !.submittedResultBlock = now]
    ELSE d

(* submitResult(self, result) *)
SubmitResultEffect(d, now, sender, r) ==
  IF SubmitResultOutcome(d, now, sender, r) = "ok"
    THEN [d EXCEPT !.submittedResultHash = Keccak(r),
                   !.submittedResultBlock = now]
    ELSE d

SubmitResult(desc) ==
  LET r == MkResult(desc, self.startBlock)
      outcome == SubmitResultOutcome(self, blockNumber, MkSender(desc), r)
  IN
  /\ lastCall.outcome = "ok"
  /\ self' = SubmitResultEffect(self, blockNumber, MkSender(desc), r)
  /\ lastCall' = [op |-> "submitResult", arg |-> desc, outcome |-> outcome]
  /\ accepted' = IF outcome = "ok" THEN accepted + 1 ELSE accepted
  /\ UNCHANGED <<lib, blockNumber, nodeVars, joinVars, appVars>>

(* setResultChallengePeriodLength(self, value) *)
SetResultChallengePeriodLength(value) ==
  LET outcome == SetParameterOutcome(self, blockNumber, value) IN
  /\ lastCall.outcome = "ok"
  /\ self' = IF outcome = "ok"
               THEN [self EXCEPT
                       !.parameters.resultChallengePeriodLength = value]
               ELSE self
  /\ lastCall' = [op |-> "setResultChallengePeriodLength",
                  arg |-> <<value>>, outcome |-> outcome]
  /\ UNCHANGED <<lib, blockNumber, accepted, nodeVars, joinVars, appVars>>

(* setResultSubmissionEligibilityDelay(self, value) *)
SetResultSubmissionEligibilityDelay(value) ==
  LET outcome == SetParameterOutcome(self, blockNumber, value) IN
  /\ lastCall.outcome = "ok"
  /\ self' = IF outcome = "ok"
               THEN [self EXCEPT
                       !.parameters.resultSubmissionEligibilityDelay = value]
               ELSE self
  /\ lastCall' = [op |-> "setResultSubmissionEligibilityDelay",
                  arg |-> <<value>>, outcome |-> outcome]
  /\ UNCHANGED <<lib, blockNumber, accepted, nodeVars, joinVars, appVars>>

Next ==
  \/ Tick
  \/ Start
  \/ \E desc \in Descs : SubmitResult(desc)
  \/ \E value \in 0..MaxPeriod : SetResultChallengePeriodLength(value)
  \/ \E value \in 0..MaxDelay : SetResultSubmissionEligibilityDelay(value)

Spec == Init /\ [][Next]_vars

SpecBoundary == InitBoundary /\ [][Next]_vars

----------------------------------------------------------------------------
(* Helpers of the properties. *)

delay == self.parameters.resultSubmissionEligibilityDelay

\* The well-formed result of seat i, with signatureThreshold signatures.
ValidDesc(i) == [submitter |-> i, n |-> signatureThreshold, flaw |-> "none"]

\* The outcome submitResult would have for `desc` in the current state.
OutcomeNow(desc) ==
  SubmitResultOutcome(self, blockNumber, MkSender(desc),
                      MkResult(desc, self.startBlock))

Submitted == lastCall.op = "submitResult"

Accepted == Submitted /\ lastCall.outcome = "ok"

\* The storage before the accepted submission.
BeforeSubmission ==
  [self EXCEPT !.submittedResultHash = ZeroHash, !.submittedResultBlock = 0]

\* A transaction of the ledger (not the mining of a block).
LedgerCall ==
  \/ Start
  \/ \E desc \in Descs : SubmitResult(desc)
  \/ \E value \in 0..MaxPeriod : SetResultChallengePeriodLength(value)
  \/ \E value \in 0..MaxDelay : SetResultSubmissionEligibilityDelay(value)

----------------------------------------------------------------------------
(* Properties. *)

\* C1: within one session at most one result is accepted: once a result is
\* submitted, submittedResultHash and submittedResultBlock never change
\* again and every later submitResult is rejected.
C1_SingleResult ==
  /\ [](accepted <= 1)
  /\ [][self.submittedResultBlock > 0 =>
          /\ self'.submittedResultHash = self.submittedResultHash
          /\ self'.submittedResultBlock = self.submittedResultBlock
          /\ (lastCall'.op = "submitResult" => lastCall'.outcome # "ok")]_vars

\* A well-formed result of an eligible member is rejected because another
\* member's result was accepted before.
C1_Witness ==
  /\ Submitted
  /\ lastCall.arg.flaw = "none"
  /\ lastCall.arg.n = signatureThreshold
  /\ lastCall.arg.submitter \in 1..groupSize
  /\ self.submittedResultBlock > 0
  /\ IsEligible(self, blockNumber, lastCall.arg.submitter)
  /\ self.submittedResultHash[2].submitterMemberIndex # lastCall.arg.submitter
  /\ lastCall.outcome = "current state is not AWAITING_RESULT"

\* C2: the phase never moves to an earlier phase of the order IDLE,
\* KEY_GENERATION, AWAITING_RESULT, CHALLENGE, except from CHALLENGE to
\* AWAITING_RESULT.
C2_PhaseMonotone ==
  [][\/ StateOrdinal(currentState') >= StateOrdinal(currentState)
     \/ currentState = "CHALLENGE" /\ currentState' = "AWAITING_RESULT"]_vars

\* The session went through all phases and blocks are mined after it.
C2_Witness ==
  /\ currentState = "CHALLENGE"
  /\ blockNumber > self.submittedResultBlock
  /\ lastCall.op = "start"

\* C3: from CHALLENGE a ledger operation moves the session to IDLE or back
\* to AWAITING_RESULT, so that the phase can return to IDLE.
C3_ChallengeCanBeLeft ==
  currentState = "CHALLENGE" =>
    ENABLED (LedgerCall /\ currentState' \in {"IDLE", "AWAITING_RESULT"})

\* C4: the phase is a function of startBlock, submittedResultBlock and the
\* block number, and the storage holds no phase.
C4_PhaseIsComputed ==
  LET elapsed == /\ self.startBlock > 0
                 /\ blockNumber > self.startBlock + offchainDkgTime
  IN
  /\ (currentState = "IDLE") <=> (self.startBlock = 0)
  /\ (currentState = "KEY_GENERATION") <=> (self.startBlock > 0 /\ ~elapsed)
  /\ (currentState = "AWAITING_RESULT") <=>
       (elapsed /\ self.submittedResultBlock = 0)
  /\ (currentState = "CHALLENGE") <=> (elapsed /\ self.submittedResultBlock > 0)
  /\ DOMAIN self = {"parameters", "startBlock", "submittedResultHash",
                    "submittedResultBlock"}

\* The first block after the key generation window.
C4_Witness ==
  /\ self.startBlock > 0
  /\ blockNumber = self.startBlock + offchainDkgTime + 1
  /\ currentState = "AWAITING_RESULT"

\* C5: hasDkgTimedOut is true iff the phase is AWAITING_RESULT and the block
\* is past startBlock + offchainDkgTime + groupSize * delay, and no result
\* is accepted at a block where it is true.
C5_Timeout ==
  /\ hasDkgTimedOut <=>
       /\ currentState = "AWAITING_RESULT"
       /\ blockNumber > self.startBlock + offchainDkgTime + groupSize * delay
  /\ hasDkgTimedOut => \A desc \in Descs : OutcomeNow(desc) # "ok"
  /\ self.submittedResultBlock > 0 =>
       /\ ~HasDkgTimedOutAt(BeforeSubmission, self.submittedResultBlock)
       /\ self.submittedResultBlock
            <= self.startBlock + offchainDkgTime + groupSize * delay

\* A well-formed result of an eligible member is rejected for the timeout.
C5_Witness ==
  /\ Submitted
  /\ lastCall.arg = ValidDesc(groupSize)
  /\ lastCall.outcome = "dkg timeout already passed"

\* The first block of seat i's eligibility window, and the last block
\* before the DKG timeout.
WindowOpens(i) == self.startBlock + offchainDkgTime + (i - 1) * delay

LastSubmissionBlock == self.startBlock + offchainDkgTime + groupSize * delay

AwaitingFirstResult == self.startBlock > 0 /\ self.submittedResultBlock = 0

\* C6, as stated: with keyGenWindow = 50, groupSize = 4 and delay = 10, a
\* submission at block startBlock + 50 + 3 * 10 + 1 is rejected, and
\* startBlock + 50 + 3 * 10 is the last block at which member 4's result is
\* accepted.
C6_AsStated ==
  (lib = Boundary /\ delay = BoundaryDelay /\ Submitted) =>
    LET last == self.startBlock + BoundaryWindow
                  + (BoundaryGroupSize - 1) * BoundaryDelay
    IN
    /\ blockNumber = last + 1 => lastCall.outcome # "ok"
    /\ (lastCall.outcome = "ok" /\ lastCall.arg.submitter = BoundaryGroupSize)
         => blockNumber <= last

\* C6, amended: with keyGenWindow = 50, groupSize = 4 and delay = 10, no
\* submission is accepted after block startBlock + 50 + 4 * 10, every
\* submission at the next block is rejected, and at block
\* startBlock + 50 + 4 * 10 member 4's well-formed result is accepted.
C6_TimeoutBoundary ==
  (lib = Boundary /\ delay = BoundaryDelay) =>
    LET last == self.startBlock + BoundaryWindow
                  + BoundaryGroupSize * BoundaryDelay
    IN
    /\ self.submittedResultBlock > 0 => self.submittedResultBlock <= last
    /\ (AwaitingFirstResult /\ blockNumber = last + 1) =>
         \A desc \in Descs : OutcomeNow(desc) = "dkg timeout already passed"
    /\ (Submitted /\ self.startBlock > 0 /\ blockNumber = last + 1) =>
         lastCall.outcome # "ok"
    /\ (AwaitingFirstResult /\ blockNumber = last) =>
         OutcomeNow(ValidDesc(BoundaryGroupSize)) = "ok"

\* Member 4's result is accepted at block startBlock + 50 + 4 * 10.
C6_Witness ==
  /\ lib = Boundary
  /\ delay = BoundaryDelay
  /\ Accepted
  /\ lastCall.arg = ValidDesc(BoundaryGroupSize)
  /\ blockNumber = self.startBlock + BoundaryWindow
                     + BoundaryGroupSize * BoundaryDelay

\* C7: a result of member i is never accepted before block
\* startBlock + offchainDkgTime + (i - 1) * delay, and a member is never
\* eligible before the window of the member before it has opened.
C7_EligibilityOrder ==
  /\ Accepted => blockNumber >= WindowOpens(lastCall.arg.submitter)
  /\ AwaitingFirstResult =>
       \A i \in 2..groupSize :
         /\ IsEligible(self, blockNumber, i) <=> blockNumber >= WindowOpens(i)
         /\ IsEligible(self, blockNumber, i) => blockNumber >= WindowOpens(i - 1)

\* The last member's well-formed result is rejected while an earlier member's
\* window is open and its own is not.
C7_Witness ==
  /\ Submitted
  /\ lastCall.arg = ValidDesc(groupSize)
  /\ lastCall.outcome = "Submitter not eligible"
  /\ IsEligible(self, blockNumber, groupSize - 1)

\* C8: the well-formed first result of member i is accepted at block
\* startBlock + offchainDkgTime + (i - 1) * delay, for every i in
\* 1..groupSize.
C8_AcceptedAtWindowOpening ==
  \A i \in 1..groupSize :
    (AwaitingFirstResult /\ blockNumber = WindowOpens(i)) =>
      OutcomeNow(ValidDesc(i)) = "ok"

SignaturesCount(r) == Len(r.signatures.sigs)

IndicesInRange(r) ==
  \A i \in DOMAIN r.signingMemberIndices :
    /\ r.signingMemberIndices[i] \in 1..groupSize
    /\ r.signingMemberIndices[i] \in 1..Len(r.members)

IndicesDistinct(r) ==
  Cardinality({r.signingMemberIndices[i] : i \in DOMAIN r.signingMemberIndices})
    = Len(r.signingMemberIndices)

SignaturesRecover(r) ==
  \A i \in 1..SignaturesCount(r) :
    /\ r.signatures.sigs[i].signer = r.members[r.signingMemberIndices[i]]
    /\ r.signatures.sigs[i].digest
         = ResultHash(r.groupPubKey, r.misbehaved, self.startBlock)

WellSigned(r) ==
  /\ r.signatures.extra = 0
  /\ SignaturesCount(r) = Len(r.signingMemberIndices)
  /\ SignaturesCount(r) >= signatureThreshold
  /\ SignaturesCount(r) <= groupSize
  /\ IndicesInRange(r)
  /\ IndicesDistinct(r)
  /\ SignaturesRecover(r)

SignatureMessages ==
  {"Too short signatures array", "Malformed signatures array",
   "Unexpected signatures count", "Too few signatures", "Too many signatures",
   "Invalid index", "Index out of range", "Panic: usedMemberIndices",
   "Duplicate member index", "Invalid signature"}

\* C10: a result with at least signatureThreshold valid signatures of
\* distinct members in range passes the signature checks of verify; no
\* result is accepted that has fewer than signatureThreshold signatures, a
\* repeated signing index, or a signature that does not recover to the
\* address of the claimed member.
C10_SignatureVerification ==
  Submitted =>
    /\ lastCall.outcome \in SignatureMessages =>
         ~WellSigned(MkResult(lastCall.arg, self.startBlock))
    /\ lastCall.outcome = "ok" =>
         LET r == MkResult(lastCall.arg, self.startBlock) IN
         /\ SignaturesCount(r) >= signatureThreshold
         /\ IndicesDistinct(r)
         /\ SignaturesRecover(r)
         /\ WellSigned(r)

\* A result in which the last signature is another member's is rejected by
\* the signature check.
C10_Witness ==
  /\ Submitted
  /\ lastCall.arg.flaw = "wrongSigner"
  /\ lastCall.outcome = "Invalid signature"

ForeignSeat(desc) ==
  LET members == MkMembers(desc) IN
  \/ desc.submitter < 1
  \/ desc.submitter > Len(members)
  \/ members[desc.submitter] # MkSender(desc)

\* C12: a result is accepted only if submitterMemberIndex is at least 1 and
\* members[submitterMemberIndex - 1] is the caller; a result under index 0,
\* under an index beyond the member list or under the seat of another
\* address is rejected whenever it is submitted.
C12_SubmitterIsCaller ==
  /\ Accepted => ~ForeignSeat(lastCall.arg)
  /\ Submitted =>
       /\ ForeignSeat(lastCall.arg) => lastCall.outcome # "ok"
       /\ lastCall.outcome = "Invalid submitter index"
            => lastCall.arg.submitter = 0
       /\ lastCall.outcome \in {"Panic: members", "Unexpected submitter index"}
            => ForeignSeat(lastCall.arg)

\* An otherwise acceptable result sent by another address than the one at
\* the claimed seat is rejected while that seat is eligible.
C12_Witness ==
  /\ Submitted
  /\ lastCall.arg.flaw = "wrongSender"
  /\ IsEligible(self, blockNumber, lastCall.arg.submitter)
  /\ lastCall.outcome = "Unexpected submitter index"

\* C13: a rejected submitResult leaves startBlock, submittedResultHash,
\* submittedResultBlock and the parameters as they were, and the phase too.
C13_RejectedLeavesState ==
  [][(lastCall'.op = "submitResult" /\ lastCall'.outcome # "ok") =>
       /\ self' = self
       /\ CurrentStateAt(self', blockNumber') = currentState]_vars

\* A result with a wrong signer is rejected by verify while the session
\* awaits its result.
C13_Witness ==
  /\ Submitted
  /\ lastCall.outcome = "Invalid signature"
  /\ currentState = "AWAITING_RESULT"
  /\ self.submittedResultBlock = 0

----------------------------------------------------------------------------
(* The member task of pkg/tbtc/node.go: the goroutine joinDKGIfEligible    *)
(* starts for a member index the node controls.  The chain's block counter *)
(* is blockNumber.  The retry loop, the Executor, the publication and the  *)
(* fate decision are called by node.go and defined elsewhere: they follow  *)
(* the specification's sections 4.3 and 4.4.                               *)

\* chainConfig.GroupSize of the modelled chain.
GroupSize == 3
\* dkgAttemptMaxBlockDuration, in blocks.
dkgAttemptMaxBlockDuration == 2
\* The retry loop's back-off between a failed attempt and the next, in
\* blocks.
BackOff == 1
\* The session-level timeout, in blocks after the session's start block.
MaxSessionBlocks == 2
\* DKGResultSubmitted events delivered to one task.
MaxEvents == 1
\* The seeds of the sessions.
MaxSeed == 17

Seeds == {MaxSeed}

\* selectedSigningGroupOperators: one operator per seat.
selectedSigningGroupOperators == [i \in 1..GroupSize |-> i]

memberIndex == session.memberIndex

\* big.Int.Text(16) and the %v of an unsigned integer: the digits of n in
\* the base, most significant first.
Digit(d) ==
  <<"0", "1", "2", "3", "4", "5", "6", "7", "8", "9", "a", "b", "c", "d",
    "e", "f">>[d + 1]

RECURSIVE Text(_, _)
Text(n, base) ==
  IF n < base THEN <<Digit(n)>>
  ELSE Text(n \div base, base) \o <<Digit(n % base)>>

\* Faulty variant: the session id is the seed alone.
SessionIDSeedOnly(seed, number) == Text(seed, 16)

\* fmt.Sprintf("%v-%v", seed.Text(16), attempt.number)
SessionID(seed, number) == Text(seed, 16) \o <<"-">> \o Text(number, 10)

\* A context made by context.WithCancel(loopCtx) is done once its cancel
\* function was called or loopCtx is done.
LoopCtxDone == loopCtx # "active"

AttemptCtxDone(a) == a.cancelled \/ LoopCtxDone

\* Faulty variant: waitForBlockHeight does not select on ctx.Done().
WaitForBlockHeightReturnsIgnoringCtx(ctxDone, blockHeight, failed) ==
  failed \/ blockNumber >= blockHeight

\* waitForBlockHeight(ctx, blockHeight) returns: the block counter failed,
\* the height is reached, or ctx is done.
WaitForBlockHeightReturns(ctxDone, blockHeight, failed) ==
  failed \/ blockNumber >= blockHeight \/ ctxDone

\* The session-level timeout has elapsed.
SessionTimedOut == blockNumber > session.startBlockNumber + MaxSessionBlocks

\* The attempt the retry loop makes next: the number after the last one,
\* starting a back-off after the last failure, excluding every member
\* excluded before and every member that failed in the last attempt.
NextAttemptParams ==
  IF attempts = <<>>
    THEN [number |-> 1,
          startBlock |-> session.startBlockNumber,
          excludedMembersIndexes |-> {}]
    ELSE LET last == attempts[Len(attempts)] IN
         [number |-> last.number + 1,
          startBlock |-> last.failedAt + BackOff,
          excludedMembersIndexes |->
            last.excludedMembersIndexes \cup last.failed]

\* Faulty variant: the Executor is not told whom to exclude.
ExecuteArgsNoExclusion(params) ==
  [sessionID |-> SessionID(session.seed, params.number),
   memberIndex |-> memberIndex,
   excludedMembersIndexes |-> {}]

\* The arguments of dkgExecutor.Execute the model keeps.
ExecuteArgs(params) ==
  [sessionID |-> SessionID(session.seed, params.number),
   memberIndex |-> memberIndex,
   excludedMembersIndexes |-> params.excludedMembersIndexes]

\* The attempt function's set-up for `params`: the attempt's context, the
\* goroutine that waits for the attempt's last block, and the Executor
\* called.
DkgAttemptFn(params) ==
  [number |-> params.number,
   startBlock |-> params.startBlock,
   excludedMembersIndexes |-> params.excludedMembersIndexes,
   executed |-> ExecuteArgs(params),
   cancelled |-> FALSE,
   waiter |-> "waiting",
   executor |-> "running",
   stopPill |-> "none",
   failedAt |-> 0,
   failed |-> {}]

\* The result of a successful Executor call.
ExecuteResult(a) ==
  [attempt |-> a.number,
   groupPublicKey |-> "K",
   operatingMemberIDs |-> (1..GroupSize) \ a.excludedMembersIndexes]

\* The task's deferred calls: cancelLoopCtx.
Deferred == IF loopCtx = "active" THEN "cancelled" ELSE loopCtx

Current == attempts[Len(attempts)]

SetCurrent(a) == [attempts EXCEPT ![Len(attempts)] = a]

(* A block is mined. *)
NodeTick ==
  /\ blockNumber < session.startBlockNumber + MaxSessionBlocks + MaxAfter
  /\ blockNumber' = blockNumber + 1
  /\ UNCHANGED <<ledgerVars, nodeVars, joinVars, appVars>>

(* cancelDkgContextOnStopSignal: a stop pill of the session arrives. *)
ReceiveStopPill ==
  /\ loopCtx = "active"
  /\ loopCtx' = "stopped"
  /\ UNCHANGED <<appVars, joinVars, ledgerVars, blockNumber, session, pc, attempts, retryResult,
                 publicationCtx, dkgResultChannel, operatingMemberIndexes,
                 signers, logged>>

(* context.WithTimeout(context.Background(), 7*24*time.Hour) expires. *)
LoopCtxExpires ==
  /\ loopCtx = "active"
  /\ loopCtx' = "expired"
  /\ UNCHANGED <<appVars, joinVars, ledgerVars, blockNumber, session, pc, attempts, retryResult,
                 publicationCtx, dkgResultChannel, operatingMemberIndexes,
                 signers, logged>>

\* The members the Executor can find to have failed in attempt a: members
\* other than the task's own that are not excluded yet.
CanFail(a) == ((1..GroupSize) \ {memberIndex}) \ a.excludedMembersIndexes

\* Faulty variant: the attempt function starts the Executor and returns
\* without waiting for it.
DkgAttemptFnReturnsEarly(a) == TRUE

\* The attempt function returns when the Executor call has returned.
DkgAttemptFnReturns(a) == a.executor # "running"

\* Faulty variant: the attempt function drops the Executor's error.
DkgAttemptFnResultNoError(a) == [result |-> ExecuteResult(a), err |-> Nil]

\* What the attempt function returns to the retry loop.
DkgAttemptFnResult(a) ==
  IF a.executor = "succeeded"
    THEN [result |-> ExecuteResult(a), err |-> Nil]
    ELSE [result |-> NilResult, err |-> "dkg attempt failed"]

\* Faulty variant: the stop pill is scheduled whatever the Executor returned.
DkgAttemptFnStopPillAlways(a) == "scheduled"

\* The attempt function schedules the stop pill after a result only.
DkgAttemptFnStopPill(a) ==
  IF a.executor = "succeeded" THEN "scheduled" ELSE "none"

\* The retry loop's state after the attempt function returned `ret`.
RetryLoopState(ret) ==
  IF ret.err = Nil THEN "SUCCEEDED"
  ELSE IF LoopCtxDone THEN "STOPPED"
  ELSE IF SessionTimedOut THEN "TIMED_OUT"
  ELSE "FAILED_RETRYABLE"

\* What retryLoop.start returns in that state.
RetryLoopReturn(state, ret) ==
  CASE state = "SUCCEEDED" -> ret
    [] state = "STOPPED" -> [result |-> NilResult, err |-> Nil]
    [] state = "TIMED_OUT" -> [result |-> NilResult, err |-> "dkg timed out"]

(* The retry loop starts the next attempt at its start block. *)
StartAttempt ==
  /\ pc = "retryLoop"
  /\ ~LoopCtxDone
  /\ blockNumber >= NextAttemptParams.startBlock
  /\ attempts' = Append(attempts, DkgAttemptFn(NextAttemptParams))
  /\ pc' = "execute"
  /\ UNCHANGED <<appVars, joinVars, ledgerVars, blockNumber, session, loopCtx, retryResult,
                 publicationCtx, dkgResultChannel, operatingMemberIndexes,
                 signers, logged>>

(* The retry loop finds its context done while it waits for a start block. *)
RetryLoopStopped ==
  /\ pc = "retryLoop"
  /\ WaitForBlockHeightReturns(LoopCtxDone, NextAttemptParams.startBlock, FALSE)
  /\ LoopCtxDone
  /\ retryResult' = RetryLoopReturn("STOPPED", [result |-> NilResult, err |-> Nil])
  /\ pc' = "returned"
  /\ UNCHANGED <<appVars, joinVars, ledgerVars, blockNumber, session, loopCtx, attempts,
                 publicationCtx, dkgResultChannel, operatingMemberIndexes,
                 signers, logged>>

\* Faulty variant: the attempt's last block is counted from the end of the
\* attempt's own duration.
AttemptDeadlineLate(a) == a.startBlock + 2 * dkgAttemptMaxBlockDuration

\* The block the attempt's timeout goroutine waits for.
AttemptDeadline(a) == a.startBlock + dkgAttemptMaxBlockDuration

(* The goroutine of an attempt's timeout: waitForBlockHeight returns, with *)
(* an error or without, and cancelAttemptCtx is called.                    *)
AttemptTimeout(i, failed) ==
  /\ attempts[i].waiter = "waiting"
  /\ WaitForBlockHeightReturns(
       LoopCtxDone, AttemptDeadline(attempts[i]), failed)
  /\ attempts' = [attempts EXCEPT
                    ![i].waiter = IF failed THEN "failed" ELSE "returned",
                    ![i].cancelled = TRUE]
  /\ UNCHANGED <<appVars, joinVars, ledgerVars, blockNumber, session, pc, loopCtx, retryResult,
                 publicationCtx, dkgResultChannel, operatingMemberIndexes,
                 signers, logged>>

(* dkgExecutor.Execute returns a result: only under a context not done. *)
ExecuteSucceeds ==
  /\ pc = "execute"
  /\ Current.executor = "running"
  /\ ~AttemptCtxDone(Current)
  /\ attempts' = SetCurrent([Current EXCEPT !.executor = "succeeded"])
  /\ UNCHANGED <<appVars, joinVars, ledgerVars, blockNumber, session, pc, loopCtx, retryResult,
                 publicationCtx, dkgResultChannel, operatingMemberIndexes,
                 signers, logged>>

(* dkgExecutor.Execute returns an error because its context is done. *)
ExecuteCancelled ==
  /\ pc = "execute"
  /\ Current.executor = "running"
  /\ AttemptCtxDone(Current)
  /\ attempts' = SetCurrent([Current EXCEPT !.executor = "cancelled"])
  /\ UNCHANGED <<appVars, joinVars, ledgerVars, blockNumber, session, pc, loopCtx, retryResult,
                 publicationCtx, dkgResultChannel, operatingMemberIndexes,
                 signers, logged>>

(* dkgExecutor.Execute returns an error because members failed. *)
ExecuteFails(members) ==
  /\ pc = "execute"
  /\ Current.executor = "running"
  /\ ~AttemptCtxDone(Current)
  /\ members \subseteq CanFail(Current)
  /\ attempts' = SetCurrent([Current EXCEPT !.executor = "failed",
                                            !.failed = members])
  /\ UNCHANGED <<appVars, joinVars, ledgerVars, blockNumber, session, pc, loopCtx, retryResult,
                 publicationCtx, dkgResultChannel, operatingMemberIndexes,
                 signers, logged>>

(* The attempt function returns to the retry loop, which returns the       *)
(* result, stops, times out or goes on to the next attempt.                *)
AttemptReturns ==
  LET ret == DkgAttemptFnResult(Current)
      state == RetryLoopState(ret)
  IN
  /\ pc = "execute"
  /\ DkgAttemptFnReturns(Current)
  /\ attempts' = SetCurrent([Current EXCEPT
                               !.stopPill = DkgAttemptFnStopPill(Current),
                               !.failedAt = blockNumber])
  /\ logged' = IF ret.err = Nil THEN logged
               ELSE logged \cup {<<"error", "dkg attempt failed">>}
  /\ IF state = "FAILED_RETRYABLE"
       THEN pc' = "retryLoop" /\ UNCHANGED retryResult
       ELSE pc' = "returned" /\ retryResult' = RetryLoopReturn(state, ret)
  /\ UNCHANGED <<appVars, joinVars, ledgerVars, blockNumber, session, loopCtx, publicationCtx,
                 dkgResultChannel, operatingMemberIndexes, signers>>

(* The goroutine of a scheduled stop pill: after its sleep, sendDkgStopPill *)
(* succeeds or fails.                                                      *)
SendStopPill(i, sent) ==
  /\ attempts[i].stopPill = "scheduled"
  /\ attempts' = [attempts EXCEPT
                    ![i].stopPill = IF sent THEN "sent" ELSE "failed"]
  /\ UNCHANGED <<appVars, joinVars, ledgerVars, blockNumber, session, pc, loopCtx, retryResult,
                 publicationCtx, dkgResultChannel, operatingMemberIndexes,
                 signers, logged>>

\* Faulty variant: the task does not look at a nil result.
AfterRetryLoopNoNilCheck(ret) ==
  IF ret.err # Nil THEN "failed to execute dkg" ELSE "publish"

\* The task after retryLoop.start returned `ret`: it ends with a log line,
\* or goes on to the publication.
AfterRetryLoop(ret) ==
  IF ret.err # Nil THEN "failed to execute dkg"
  ELSE IF ret.result = NilResult THEN "dkg retry loop received stop signal"
  ELSE "publish"

(* The task looks at what the retry loop returned. *)
HandleRetryResult ==
  LET next == AfterRetryLoop(retryResult) IN
  /\ pc = "returned"
  /\ IF next = "publish"
       THEN /\ pc' = "publish"
            /\ operatingMemberIndexes' =
                 IF retryResult.result = NilResult THEN {}
                 ELSE retryResult.result.operatingMemberIDs
            /\ publicationCtx' = "active"
            /\ UNCHANGED <<loopCtx, logged>>
       ELSE /\ pc' = "done"
            /\ logged' = logged \cup
                 {<<IF retryResult.err # Nil THEN "error" ELSE "info", next>>}
            /\ loopCtx' = Deferred
            /\ UNCHANGED <<operatingMemberIndexes, publicationCtx>>
  /\ UNCHANGED <<appVars, joinVars, ledgerVars, blockNumber, session, attempts, retryResult,
                 dkgResultChannel, signers>>

(* The publication's timeout elapses. *)
PublicationCtxExpires ==
  /\ publicationCtx = "active"
  /\ publicationCtx' = "done"
  /\ UNCHANGED <<appVars, joinVars, ledgerVars, blockNumber, session, pc, loopCtx, attempts,
                 retryResult, dkgResultChannel, operatingMemberIndexes,
                 signers, logged>>

\* The results other members can have submitted to the ledger.
Events ==
  [groupPublicKey : {"K", "L"},
   misbehaved : {{}, {1}, {GroupSize}}]

(* The subscription's handler is called with a DKGResultSubmitted event    *)
(* and sends it to dkgResultChannel.                                       *)
OnDKGResultSubmitted(event) ==
  /\ pc \in {"publish", "decideFate", "finalGroup"}
  /\ Len(dkgResultChannel) < MaxEvents
  /\ dkgResultChannel' = Append(dkgResultChannel, event)
  /\ UNCHANGED <<appVars, joinVars, ledgerVars, blockNumber, session, pc, loopCtx, attempts,
                 retryResult, publicationCtx, operatingMemberIndexes,
                 signers, logged>>

\* Faulty variant: a failed publication is taken as a published result.
AfterPublishIgnoringError(err) == "finalGroup"

\* The task after dkg.Publish returned err.
AfterPublish(err) == IF err # Nil THEN "decideFate" ELSE "finalGroup"

(* dkg.Publish returns: nil only under a context not done. *)
PublishReturns(err) ==
  /\ pc = "publish"
  /\ err = Nil => publicationCtx = "active"
  /\ pc' = AfterPublish(err)
  /\ logged' = IF err # Nil
                 THEN logged \cup
                        {<<"warn", "DKG result publication process failed">>}
                 ELSE logged
  /\ UNCHANGED <<appVars, joinVars, ledgerVars, blockNumber, session, loopCtx, attempts,
                 retryResult, publicationCtx, dkgResultChannel,
                 operatingMemberIndexes, signers>>

\* decideSigningGroupMemberFate of member m for a received event: the
\* operating members of the winning result, or an error when the member does
\* not support the winning result's key or is among its misbehaved members.
FateOfMember(m, event, result) ==
  IF event.groupPublicKey # result.groupPublicKey
    THEN [indexes |-> {}, err |-> "member does not support the group public key"]
  ELSE IF m \in event.misbehaved
    THEN [indexes |-> {}, err |-> "member is considered as misbehaving"]
  ELSE [indexes |-> (1..GroupSize) \ event.misbehaved, err |-> Nil]

FateOf(event, result) == FateOfMember(memberIndex, event, result)

\* decideSigningGroupMemberFate when its context is done first.
FateTimedOut == [indexes |-> {}, err |-> "DKG result publication timed out"]

\* Faulty variant: an error of the fate decision does not end the task.
AfterFateIgnoringError(fate) == "finalGroup"

\* The task after decideSigningGroupMemberFate returned.
AfterFate(fate) == IF fate.err # Nil THEN "done" ELSE "finalGroup"

(* decideSigningGroupMemberFate returns `fate`. *)
DecideFateReturns(fate) ==
  /\ pc' = AfterFate(fate)
  /\ operatingMemberIndexes' = fate.indexes
  /\ IF fate.err # Nil
       THEN /\ logged' = logged \cup
                 {<<"error",
                    "failed to handle DKG result publishing failure",
                    fate.err>>}
            /\ loopCtx' = IF AfterFate(fate) = "done" THEN Deferred ELSE loopCtx
       ELSE UNCHANGED <<logged, loopCtx>>

(* decideSigningGroupMemberFate receives an event from dkgResultChannel. *)
DecideFateOnEvent ==
  /\ pc = "decideFate"
  /\ dkgResultChannel # <<>>
  /\ DecideFateReturns(FateOf(Head(dkgResultChannel), retryResult.result))
  /\ dkgResultChannel' = Tail(dkgResultChannel)
  /\ UNCHANGED <<appVars, joinVars, ledgerVars, blockNumber, session, attempts, retryResult,
                 publicationCtx, signers>>

(* decideSigningGroupMemberFate finds publicationCtx done. *)
DecideFateOnDeadline ==
  /\ pc = "decideFate"
  /\ publicationCtx = "done"
  /\ DecideFateReturns(FateTimedOut)
  /\ UNCHANGED <<appVars, joinVars, ledgerVars, blockNumber, session, attempts, retryResult,
                 publicationCtx, dkgResultChannel, signers>>

\* Faulty variant: the final index of a member is its original index.
finalSigningGroupNoRemap(selected, operating) ==
  [operators |->
     [k \in 1..Cardinality(operating) |->
        selected[CHOOSE i \in operating :
                   Cardinality({j \in operating : j <= i}) = k]],
   membersIndexes |-> [i \in operating |-> i]]

\* finalSigningGroup: the selected operators at the operating indexes in
\* their order, and the final index of every operating member.
finalSigningGroup(selected, operating) ==
  LET final == [i \in operating |-> Cardinality({j \in operating : j <= i})]
  IN [operators |->
        [k \in 1..Cardinality(operating) |->
           selected[CHOOSE i \in operating : final[i] = k]],
      membersIndexes |-> final]

FinalSigningGroupMembersIndexes(operating) ==
  finalSigningGroup(selectedSigningGroupOperators, operating).membersIndexes

FinalSigningGroupOperators(operating) ==
  finalSigningGroup(selectedSigningGroupOperators, operating).operators

\* newSigner for member m of the selected group.
NewSignerOf(m, selected, result, operating) ==
  LET final == finalSigningGroup(selected, operating) IN
  [wallet |-> result.groupPublicKey,
   signingGroupOperators |-> final.operators,
   signingGroupMemberIndex |-> final.membersIndexes[m]]

\* newSigner for the task's member.
NewSigner(result, operating) ==
  NewSignerOf(memberIndex, selectedSigningGroupOperators, result, operating)

(* finalSigningGroup returns an error: the task logs it and ends. *)
FinalSigningGroupFails ==
  /\ pc = "finalGroup"
  /\ pc' = "done"
  /\ loopCtx' = Deferred
  /\ logged' = logged \cup
       {<<"error", "failed to resolve final signing group">>}
  /\ UNCHANGED <<appVars, joinVars, ledgerVars, blockNumber, session, attempts, retryResult,
                 publicationCtx, dkgResultChannel, operatingMemberIndexes,
                 signers>>

(* The task resolves the final signing group and registers its signer;    *)
(* registerSigner succeeds or fails.                                       *)
RegisterSigner(registered) ==
  LET ok == memberIndex \in operatingMemberIndexes IN
  /\ pc = "finalGroup"
  /\ pc' = "done"
  /\ loopCtx' = Deferred
  /\ signers' = IF ok /\ registered
                  THEN signers \cup
                         {NewSigner(retryResult.result, operatingMemberIndexes)}
                  ELSE signers
  /\ logged' = logged \cup
       {IF ~ok THEN <<"error",
                      "failed to resolve final signing group member index">>
        ELSE IF ~registered THEN <<"error", "failed to register">>
        ELSE <<"info", "registered">>}
  /\ UNCHANGED <<appVars, joinVars, ledgerVars, blockNumber, session, attempts, retryResult,
                 publicationCtx, dkgResultChannel, operatingMemberIndexes>>

NodeInit ==
  /\ lib = Deployed
  /\ blockNumber = 1
  /\ self = InitData(1, 1)
  /\ lastCall = NoCall
  /\ accepted = 0
  /\ session \in [seed : Seeds, startBlockNumber : {1},
                  memberIndex : {1, GroupSize}]
  /\ TaskInit
  /\ NoApp
  /\ NoJoin

\* The retry loop with its goroutines, up to what the task does with the
\* loop's return value.
NodeNext ==
  \/ NodeTick
  \/ ReceiveStopPill
  \/ LoopCtxExpires
  \/ StartAttempt
  \/ RetryLoopStopped
  \/ \E i \in DOMAIN attempts : \E failed \in BOOLEAN : AttemptTimeout(i, failed)
  \/ ExecuteSucceeds
  \/ ExecuteCancelled
  \/ \E members \in SUBSET (1..GroupSize) : ExecuteFails(members)
  \/ AttemptReturns
  \/ \E i \in DOMAIN attempts : \E sent \in BOOLEAN : SendStopPill(i, sent)
  \/ HandleRetryResult

\* The task with a first attempt that is not retried, through the
\* publication to the registration of the signer.
PublicationNext ==
  \/ ReceiveStopPill
  \/ LoopCtxExpires
  \/ StartAttempt
  \/ RetryLoopStopped
  \/ \E i \in DOMAIN attempts : \E failed \in BOOLEAN : AttemptTimeout(i, failed)
  \/ ExecuteSucceeds
  \/ ExecuteCancelled
  \/ AttemptReturns
  \/ HandleRetryResult
  \/ PublicationCtxExpires
  \/ \E event \in Events : OnDKGResultSubmitted(event)
  \/ \E err \in {Nil, "publication failed"} : PublishReturns(err)
  \/ DecideFateOnEvent
  \/ DecideFateOnDeadline
  \/ FinalSigningGroupFails
  \/ \E registered \in BOOLEAN : RegisterSigner(registered)

SpecNode == NodeInit /\ [][NodeNext]_vars

SpecPublication == NodeInit /\ [][PublicationNext]_vars

----------------------------------------------------------------------------
(* Properties of the member task. *)

\* retryLoop.start returned nil and no error.
NoResult == [result |-> NilResult, err |-> Nil]

\* No attempt's Executor call has returned a result.
NoSuccess == \A i \in DOMAIN attempts : attempts[i].executor # "succeeded"

\* C14: when a stop signal is observed while an attempt is in progress, the
\* retry loop returns no result and no error, and the task then ends with
\* the stop signal's log line, without starting the publication and without
\* registering a signer.
C14_StopSignal ==
  /\ [][(/\ pc = "execute"
         /\ loopCtx = "stopped"
         /\ Current.executor # "succeeded"
         /\ pc' # pc)
          => (pc' = "returned" /\ retryResult' = NoResult)]_vars
  /\ [][(pc = "returned" /\ retryResult = NoResult /\ pc' # pc)
          => /\ pc' = "done"
             /\ signers' = {}
             /\ publicationCtx' = "none"
             /\ <<"info", "dkg retry loop received stop signal">> \in logged'
             /\ <<"error", "failed to execute dkg">> \notin logged']_vars
  /\ []((loopCtx = "stopped" /\ NoSuccess)
          => /\ pc \in {"retryLoop", "execute", "returned", "done"}
             /\ signers = {}
             /\ publicationCtx = "none")

\* The task has ended after an Executor call that returned because the stop
\* signal cancelled its context.
C14_Witness ==
  /\ pc = "done"
  /\ loopCtx = "stopped"
  /\ attempts # <<>>
  /\ Current.executor = "cancelled"
  /\ ~Current.cancelled
  /\ retryResult = NoResult

\* C15: the attempts of a task are numbered in sequence and only the last
\* one can be in progress: every attempt before it has concluded by
\* success, failure or cancellation.
C15_SequentialAttempts ==
  /\ \A i \in DOMAIN attempts :
       /\ attempts[i].number = i
       /\ i < Len(attempts) =>
            attempts[i].executor \in {"succeeded", "failed", "cancelled"}
  /\ Cardinality({i \in DOMAIN attempts : attempts[i].executor = "running"})
       <= 1

\* A second attempt is in progress after a first one that failed.
C15_Witness ==
  /\ Len(attempts) >= 2
  /\ attempts[1].executor = "failed"
  /\ Current.executor = "running"

\* C16: the members excluded in an attempt are excluded in every later
\* attempt of the session, in the attempt's parameters and in what the
\* Executor is called with.
C16_ExclusionMonotone ==
  \A i \in DOMAIN attempts :
    /\ attempts[i].executed.excludedMembersIndexes
         = attempts[i].excludedMembersIndexes
    /\ \A j \in DOMAIN attempts :
         i < j => /\ attempts[i].excludedMembersIndexes
                       \subseteq attempts[j].excludedMembersIndexes
                  /\ attempts[i].executed.excludedMembersIndexes
                       \subseteq attempts[j].executed.excludedMembersIndexes

\* A third attempt excludes the member excluded in the second and one more.
C16_Witness ==
  /\ Len(attempts) >= 3
  /\ attempts[2].executed.excludedMembersIndexes # {}
  /\ attempts[3].executed.excludedMembersIndexes
       # attempts[2].executed.excludedMembersIndexes

\* C17: the context of an attempt's Executor call is cancelled by the
\* attempt's goroutine once block startBlock + dkgAttemptMaxBlockDuration is
\* reached or the loop's context is done, and, without an error of the block
\* counter, not before; under a done context the Executor call returns with
\* an error and with no result; the session ids the Executor is called
\* with are seed-attemptNumber and differ between the attempts.
C17_AttemptDeadline ==
  \A i \in DOMAIN attempts :
    LET a == attempts[i]
        due == blockNumber >= a.startBlock + dkgAttemptMaxBlockDuration
    IN
    /\ (a.waiter = "waiting" /\ (due \/ LoopCtxDone))
         => ENABLED AttemptTimeout(i, FALSE)
    /\ a.waiter = "returned" => (due \/ LoopCtxDone)
    /\ a.cancelled <=> a.waiter # "waiting"
    /\ (a.executor = "running" /\ (a.cancelled \/ LoopCtxDone))
         => (ENABLED ExecuteCancelled /\ ~ENABLED ExecuteSucceeds)
    /\ a.executed.sessionID
         = Text(session.seed, 16) \o <<"-">> \o Text(a.number, 10)
    /\ \A j \in DOMAIN attempts :
         j # i => attempts[j].executed.sessionID # a.executed.sessionID

\* The Executor call of a second attempt returned because the attempt's
\* goroutine cancelled its context at the attempt's last block.
C17_Witness ==
  /\ Len(attempts) >= 2
  /\ Current.executor = "cancelled"
  /\ Current.waiter = "returned"
  /\ blockNumber = Current.startBlock + dkgAttemptMaxBlockDuration
  /\ loopCtx = "active"

\* The blocking operations of the task under the loop's context return once
\* that context is done: the retry loop's wait for a start block, the wait of
\* every attempt's goroutine, and the Executor call.
LoopCtxPropagates ==
  LoopCtxDone =>
    /\ pc = "retryLoop" => ENABLED RetryLoopStopped
    /\ \A i \in DOMAIN attempts :
         attempts[i].waiter = "waiting" => ENABLED AttemptTimeout(i, FALSE)
    /\ (pc = "execute" /\ Current.executor = "running")
         => (ENABLED ExecuteCancelled /\ ~ENABLED ExecuteSucceeds)

\* C18, as stated: once the task's context is cancelled by a stop signal or
\* by expiry, every block-height wait, the Executor call and the channel
\* read of the task return.
C18_AsStated ==
  /\ LoopCtxPropagates
  /\ (LoopCtxDone /\ pc = "decideFate")
       => ENABLED (DecideFateOnEvent \/ DecideFateOnDeadline)

\* C18, amended: every blocking operation returns once the context it runs
\* under is done: the block-height waits and the Executor call once the
\* loop's context is cancelled by a stop signal or has expired, the channel
\* read of the fate decision once the publication's context has expired.
C18_CancellationPropagates ==
  /\ LoopCtxPropagates
  /\ (publicationCtx = "done" /\ pc = "decideFate")
       => ENABLED DecideFateOnDeadline

\* The goroutine of an attempt has returned from its wait before the
\* attempt's last block, because the stop signal cancelled the loop's
\* context.
C18_Witness ==
  /\ loopCtx = "stopped"
  /\ attempts # <<>>
  /\ Current.waiter = "returned"
  /\ blockNumber < Current.startBlock + dkgAttemptMaxBlockDuration

\* C19: a stop pill is scheduled only for an attempt whose Executor call
\* returned a result; the retry loop returns that result and the task goes
\* on whatever becomes of the stop pill, and the step that sends it, or
\* fails to send it, changes nothing else of the task.
C19_StopPill ==
  /\ [](\A i \in DOMAIN attempts :
          attempts[i].stopPill # "none" => attempts[i].executor = "succeeded")
  /\ []((pc = "returned" /\ ~NoSuccess)
          => /\ retryResult = [result |-> ExecuteResult(Current), err |-> Nil]
             /\ ENABLED HandleRetryResult)
  /\ [][(\E i \in DOMAIN attempts :
           /\ attempts[i].stopPill = "scheduled"
           /\ attempts'[i].stopPill \in {"sent", "failed"})
          => UNCHANGED <<pc, loopCtx, retryResult, publicationCtx,
                         dkgResultChannel, operatingMemberIndexes, signers,
                         logged, blockNumber>>]_vars

\* The task has gone on to the publication although the stop pill could not
\* be sent.
C19_Witness ==
  /\ pc = "publish"
  /\ Current.stopPill = "failed"
  /\ retryResult.result = ExecuteResult(Current)

\* The log line of a fate decision that ended with the error err.
FateError(err) ==
  <<"error", "failed to handle DKG result publishing failure", err>>

\* C20: when the publication failed and no result of another member has
\* arrived when the publication's deadline passes, the task logs the
\* failure as an error and ends, and it registers no signer.
C20_PublicationFailure ==
  /\ [][(pc = "decideFate" /\ dkgResultChannel = <<>> /\ pc' # pc)
          => /\ publicationCtx = "done"
             /\ pc' = "done"
             /\ FateError("DKG result publication timed out") \in logged'
             /\ signers' = {}]_vars
  /\ [](FateError("DKG result publication timed out") \in logged
          => (pc = "done" /\ signers = {}))

\* The task has ended with the error of the deadline.
C20_Witness ==
  /\ pc = "done"
  /\ <<"warn", "DKG result publication process failed">> \in logged
  /\ FateError("DKG result publication timed out") \in logged
  /\ signers = {}

\* The publication failed and the fate decision took the operating members
\* from the result of another member.
RaceLost ==
  /\ <<"warn", "DKG result publication process failed">> \in logged
  /\ operatingMemberIndexes # {}

----------------------------------------------------------------------------
(* joinDKGIfEligible and the member tasks it starts                        *)
(*                                                                         *)
(* One call of joinDKGIfEligible of a node whose operator holds some seats *)
(* of the selected group, and the goroutines it starts, one per seat. The  *)
(* tasks of a node share the protocol latch and the wallet registry; each  *)
(* task is followed through the steps at which it touches them and through*)
(* the decisions node.go takes between them. The wallet registry and the   *)
(* protocol latch are defined elsewhere: the registry follows the          *)
(* specification's section 4.6 and 5, the latch its section 5.             *)

\* The operators of the chain; operatorAddress is the node's own.
Operators == {"A", "B"}

operatorAddress == "A"

\* The seats of a selected group the node's operator holds at most.
MaxControlled == 2

\* What chain.SelectGroup can return: groups of up to one more than
\* GroupSize operators.
SelectedGroups ==
  {s \in UNION {[1..n -> Operators] : n \in 0..(GroupSize + 1)} :
     Cardinality({i \in DOMAIN s : s[i] = operatorAddress}) <= MaxControlled}

\* The calls of joinDKGIfEligible that can return an error.
JoinFailures ==
  {"none", "SelectGroup", "OperatorKeyPair", "PublicKeyToAddress",
   "BroadcastChannelFor", "SetFilter"}

\* Faulty variant: every position of the group is taken as the operator's.
indexesOfAll(selected, address) == 0..(Len(selected) - 1)

\* indexes: the positions, from 0, of the selected group that hold the
\* address.
indexesOf(selected, address) ==
  {p \in 0..(Len(selected) - 1) : selected[p + 1] = address}

\* memberIndex := index + 1, in uint8.
memberIndexOf(index) == (index + 1) % 256

\* Faulty variant: the size of the pre-parameters pool is not looked at.
JoinOutcomeAnyPool(e) ==
  LET indexes == indexesOf(e.selected, operatorAddress) IN
  IF e.fails = "SelectGroup" THEN "selecting group not possible"
  ELSE IF Len(e.selected) > GroupSize THEN "group size larger than supported"
  ELSE IF e.fails = "OperatorKeyPair" THEN "failed to get operator public key"
  ELSE IF e.fails = "PublicKeyToAddress" THEN "failed to get operator address"
  ELSE IF indexes = {} THEN "not eligible for DKG"
  ELSE IF e.fails = "BroadcastChannelFor" THEN "failed to get broadcast channel"
  ELSE "joining DKG"

\* How far joinDKGIfEligible gets: the log line it ends with, "joining DKG"
\* when it starts the member tasks.
JoinOutcome(e) ==
  LET indexes == indexesOf(e.selected, operatorAddress) IN
  IF e.fails = "SelectGroup" THEN "selecting group not possible"
  ELSE IF Len(e.selected) > GroupSize THEN "group size larger than supported"
  ELSE IF e.fails = "OperatorKeyPair" THEN "failed to get operator public key"
  ELSE IF e.fails = "PublicKeyToAddress" THEN "failed to get operator address"
  ELSE IF indexes = {} THEN "not eligible for DKG"
  ELSE IF Cardinality(indexes) > e.preParamsCount
    THEN "cannot join DKG as pre-parameters pool size is too small"
  ELSE IF e.fails = "BroadcastChannelFor" THEN "failed to get broadcast channel"
  ELSE "joining DKG"

\* The level joinDKGIfEligible logs its last line at.
JoinLevel(outcome) ==
  IF outcome = "selecting group not possible" THEN "warn"
  ELSE IF outcome \in {"not eligible for DKG", "joining DKG",
                       "cannot join DKG as pre-parameters pool size is too small"}
    THEN "info"
  ELSE "error"

\* The broadcast channel the member tasks are given: SetFilter's error is
\* logged and the channel is used without the filter.
JoinChannel(e) == IF e.fails = "SetFilter" THEN "open" ELSE "filtered"

\* A member task whose goroutine is started and has not run yet.
SpawnedTask ==
  [pc |-> "spawned", result |-> NilResult, operatingMemberIndexes |-> {},
   found |-> FALSE, end |-> Nil]

(* joinDKGIfEligible runs, up to its return. *)
JoinDKGIfEligible ==
  LET outcome == JoinOutcome(env)
      indexes == indexesOf(env.selected, operatorAddress)
  IN
  /\ joinPc = "called"
  /\ joinPc' = "returned"
  /\ IF outcome = "joining DKG"
       THEN /\ broadcastChannel' = JoinChannel(env)
            /\ tasks' = [m \in {memberIndexOf(p) : p \in indexes}
                           |-> SpawnedTask]
            /\ logged' = logged \cup
                 {<<JoinLevel(outcome), outcome>>} \cup
                 (IF JoinChannel(env) = "filtered" THEN {}
                  ELSE {<<"error", "could not set filter for channel">>})
       ELSE /\ logged' = logged \cup {<<JoinLevel(outcome), outcome>>}
            /\ UNCHANGED <<broadcastChannel, tasks>>
  /\ UNCHANGED <<appVars, ledgerVars, blockNumber, session, pc, loopCtx, attempts,
                 retryResult, publicationCtx, dkgResultChannel,
                 operatingMemberIndexes, signers, env, protocolLatch,
                 walletRegistry, registryMutex>>

\* Faulty variant: a task that ends with an error keeps the latch.
DeferredUnlockOnSuccess(latch, end) ==
  IF end = "registered" THEN latch - 1 ELSE latch

\* defer n.protocolLatch.Unlock(): the latch when a task ends with the log
\* line end.
DeferredUnlock(latch, end) == latch - 1

\* The frame of a step of one member task.
TaskFrame ==
  UNCHANGED <<appVars, ledgerVars, blockNumber, nodeVars, env, joinPc,
              broadcastChannel>>

\* Member task m ends with the log line end.
TaskEnds(m, end) ==
  /\ tasks' = [tasks EXCEPT ![m].pc = "done", ![m].end = end]
  /\ protocolLatch' = DeferredUnlock(protocolLatch, end)

(* The goroutine of member m starts and takes the protocol latch. *)
TaskStarts(m) ==
  /\ tasks[m].pc = "spawned"
  /\ tasks' = [tasks EXCEPT ![m].pc = "retryLoop"]
  /\ protocolLatch' = protocolLatch + 1
  /\ UNCHANGED <<walletRegistry, registryMutex>>
  /\ TaskFrame

\* What the retry loop of a member can return: an error, nothing after a
\* stop signal, or a result with all members or all but one operating.
RetryLoopReturns ==
  {[result |-> NilResult, err |-> "dkg retry loop timed out"],
   [result |-> NilResult, err |-> Nil]}
  \cup
  {[result |-> [attempt |-> 1, groupPublicKey |-> "K",
                operatingMemberIDs |-> (1..GroupSize) \ inactive],
    err |-> Nil] : inactive \in {{}, {1}}}

(* retryLoop.start of member m returns ret. *)
TaskRetryLoopReturns(m, ret) ==
  LET next == AfterRetryLoop(ret) IN
  /\ tasks[m].pc = "retryLoop"
  /\ IF next = "publish"
       THEN /\ tasks' = [tasks EXCEPT
                           ![m].pc = "publish",
                           ![m].result = ret.result,
                           ![m].operatingMemberIndexes =
                              ret.result.operatingMemberIDs]
            /\ UNCHANGED protocolLatch
       ELSE TaskEnds(m, next)
  /\ UNCHANGED <<walletRegistry, registryMutex>>
  /\ TaskFrame

\* What decideSigningGroupMemberFate of member m can return.
Fates(m, result) ==
  {FateTimedOut} \cup {FateOfMember(m, event, result) : event \in Events}

(* dkg.Publish of member m returns err and, after an error, the fate      *)
(* decision returns fate.                                                  *)
TaskPublishReturns(m, err, fate) ==
  /\ tasks[m].pc = "publish"
  /\ fate \in Fates(m, tasks[m].result)
  /\ IF AfterPublish(err) = "finalGroup"
       THEN /\ tasks' = [tasks EXCEPT ![m].pc = "finalGroup"]
            /\ UNCHANGED protocolLatch
     ELSE IF AfterFate(fate) = "finalGroup"
       THEN /\ tasks' = [tasks EXCEPT
                           ![m].pc = "finalGroup",
                           ![m].operatingMemberIndexes = fate.indexes]
            /\ UNCHANGED protocolLatch
     ELSE TaskEnds(m, "failed to handle DKG result publishing failure")
  /\ UNCHANGED <<walletRegistry, registryMutex>>
  /\ TaskFrame

\* Faulty variant: the remap is not asked whether it has the member.
AfterFinalSigningGroupNoLookup(m, finalSigningGroupMembersIndexes, failed) ==
  IF failed THEN "failed to resolve final signing group" ELSE "register"

\* The task after finalSigningGroup: it ends when the call failed or when
\* the remap has no entry for the member, and registers its signer
\* otherwise.
AfterFinalSigningGroup(m, finalSigningGroupMembersIndexes, failed) ==
  IF failed THEN "failed to resolve final signing group"
  ELSE IF m \notin DOMAIN finalSigningGroupMembersIndexes
    THEN "failed to resolve final signing group member index"
  ELSE "register"

(* Member m resolves the final signing group; finalSigningGroup fails when *)
(* an operating index names no selected operator, and can fail otherwise.  *)
TaskResolves(m, failed) ==
  LET operating == tasks[m].operatingMemberIndexes
      invalid == ~(operating \subseteq DOMAIN env.selected)
      next == AfterFinalSigningGroup(m,
                IF invalid THEN <<>>
                ELSE finalSigningGroup(env.selected, operating).membersIndexes,
                failed \/ invalid)
  IN
  /\ tasks[m].pc = "finalGroup"
  /\ IF next = "register"
       THEN /\ tasks' = [tasks EXCEPT ![m].pc = "register"]
            /\ UNCHANGED protocolLatch
       ELSE TaskEnds(m, next)
  /\ UNCHANGED <<walletRegistry, registryMutex>>
  /\ TaskFrame

\* The signer member task m registers.
SignerOf(m) ==
  NewSignerOf(m, env.selected, tasks[m].result,
              tasks[m].operatingMemberIndexes)

\* The pair the registry keeps one signer for.
SignerKey(signer) == <<signer.wallet, signer.signingGroupMemberIndex>>

\* Faulty variant: the registry's mutex keeps nobody out.
MutexFreeAlways(mutex) == TRUE

MutexFree(mutex) == mutex = 0

\* Faulty variant: registerSigner does not look for the pair.
RegisteredNever(registry, signer) == FALSE

\* registerSigner's check: the registry has a signer of the pair.
Registered(registry, signer) ==
  \E i \in DOMAIN registry : SignerKey(registry[i]) = SignerKey(signer)

\* getSigners: the signers of a wallet, in registration order.
getSigners(registry, groupPublicKey) ==
  LET ofWallet(s) == s.wallet = groupPublicKey IN SelectSeq(registry, ofWallet)

(* registerSigner, called by member m, takes the registry's mutex and      *)
(* looks for the signer's pair.                                            *)
RegisterSignerChecks(m) ==
  /\ tasks[m].pc = "register"
  /\ MutexFree(registryMutex)
  /\ registryMutex' = m
  /\ tasks' = [tasks EXCEPT
                 ![m].pc = "registering",
                 ![m].found = Registered(walletRegistry, SignerOf(m))]
  /\ UNCHANGED <<protocolLatch, walletRegistry>>
  /\ TaskFrame

\* registerSigner's error: the pair is registered, or the signer cannot be
\* stored.
RegisterSignerErr(found, failed) ==
  IF found THEN "signer already registered"
  ELSE IF failed THEN "cannot save signer"
  ELSE Nil

\* Faulty variant: an error of registerSigner is not looked at.
AfterRegisterSignerIgnoringError(err) == "registered"

\* The task after registerSigner returned err.
AfterRegisterSigner(err) ==
  IF err # Nil THEN "failed to register" ELSE "registered"

(* registerSigner, called by member m, appends the signer unless it found  *)
(* the pair or fails, releases the mutex and returns; the task logs the    *)
(* outcome and ends.                                                       *)
RegisterSignerReturns(m, failed) ==
  LET err == RegisterSignerErr(tasks[m].found, failed) IN
  /\ tasks[m].pc = "registering"
  /\ walletRegistry' = IF err = Nil
                         THEN Append(walletRegistry, SignerOf(m))
                         ELSE walletRegistry
  /\ registryMutex' = 0
  /\ TaskEnds(m, AfterRegisterSigner(err))
  /\ TaskFrame

\* A signer an earlier session of the node has registered.
PriorSigner ==
  [wallet |-> "K", signingGroupOperators |-> <<operatorAddress>>,
   signingGroupMemberIndex |-> 1]

JoinInit ==
  /\ lib = Deployed
  /\ blockNumber = 1
  /\ self = InitData(1, 1)
  /\ lastCall = NoCall
  /\ accepted = 0
  /\ session = [seed |-> MaxSeed, startBlockNumber |-> 1, memberIndex |-> 1]
  /\ TaskInit
  /\ NoApp
  /\ env \in [selected : SelectedGroups,
              preParamsCount : 0..MaxControlled,
              fails : JoinFailures]
  /\ joinPc = "called"
  /\ broadcastChannel = "none"
  /\ tasks = <<>>
  /\ protocolLatch = 0
  /\ walletRegistry \in {<<>>, <<PriorSigner>>}
  /\ registryMutex = 0

JoinNext ==
  \/ JoinDKGIfEligible
  \/ \E m \in DOMAIN tasks : TaskStarts(m)
  \/ \E m \in DOMAIN tasks : \E ret \in RetryLoopReturns :
       TaskRetryLoopReturns(m, ret)
  \/ \E m \in DOMAIN tasks : \E err \in {Nil, "publication failed"} :
       \E fate \in Fates(m, tasks[m].result) : TaskPublishReturns(m, err, fate)
  \/ \E m \in DOMAIN tasks : \E failed \in BOOLEAN : TaskResolves(m, failed)
  \/ \E m \in DOMAIN tasks : RegisterSignerChecks(m)
  \/ \E m \in DOMAIN tasks : \E failed \in BOOLEAN :
       RegisterSignerReturns(m, failed)

SpecJoin == JoinInit /\ [][JoinNext]_vars

----------------------------------------------------------------------------
(* Properties of joinDKGIfEligible and its member tasks. *)

\* The resolution of the final group for a selected group and a set of
\* operating members: the final list has one operator per operating member,
\* the remap is defined on the operating members, grows with the original
\* index, takes every value from 1 to their number, and the operator at a
\* member's final index is the operator at its original index.
ResolvesRight(selected, operating) ==
  LET final == finalSigningGroup(selected, operating)
      remap == final.membersIndexes
  IN
  /\ Len(final.operators) = Cardinality(operating)
  /\ DOMAIN remap = operating
  /\ {remap[i] : i \in operating} = 1..Cardinality(operating)
  /\ \A i, j \in operating : i < j => remap[i] < remap[j]
  /\ \A i \in operating : final.operators[remap[i]] = selected[i]

\* C22: for every selected group and every set of operating members, the
\* final operators are the selected operators at the operating indexes in
\* their original order and the remap sends every operating index to its
\* position, from 1, in the final list; [A,B,C,D] and {1,3,4} give [A,C,D]
\* and 1->1, 3->2, 4->3.
C22_FinalGroupResolution ==
  /\ \A operating \in SUBSET DOMAIN env.selected :
       ResolvesRight(env.selected, operating)
  /\ \A m \in DOMAIN tasks :
       tasks[m].pc \in {"register", "registering"}
         => /\ ResolvesRight(env.selected, tasks[m].operatingMemberIndexes)
            /\ SignerOf(m).signingGroupMemberIndex
                 = Cardinality({j \in tasks[m].operatingMemberIndexes :
                                  j <= m})
  /\ LET final == finalSigningGroup(<<"A", "B", "C", "D">>, {1, 3, 4}) IN
     /\ final.operators = <<"A", "C", "D">>
     /\ final.membersIndexes = (1 :> 1) @@ (3 :> 2) @@ (4 :> 3)

\* A task registers its signer with a final index that is not its original
\* index, for a group of fewer operators than were selected.
C22_Witness ==
  \E m \in DOMAIN tasks :
    /\ tasks[m].pc = "registering"
    /\ SignerOf(m).signingGroupMemberIndex # m
    /\ Len(SignerOf(m).signingGroupOperators) < Len(env.selected)

\* Member task m has resolved a final group its member belongs to.
Survives(m) ==
  /\ tasks[m].operatingMemberIndexes \subseteq DOMAIN env.selected
  /\ m \in tasks[m].operatingMemberIndexes

\* The registry holds the signer of member task m.
HoldsSignerOf(m) ==
  /\ Survives(m)
  /\ \E i \in DOMAIN walletRegistry : walletRegistry[i] = SignerOf(m)

AllTasksDone ==
  /\ joinPc = "returned"
  /\ \A m \in DOMAIN tasks : tasks[m].pc = "done"

EntriesFor(registry, signer) ==
  {i \in DOMAIN registry : SignerKey(registry[i]) = SignerKey(signer)}

\* No two entries of a sequence of signers have the same pair.
OnePerPair(registry) ==
  \A i, j \in DOMAIN registry :
    SignerKey(registry[i]) = SignerKey(registry[j]) => i = j

\* C24: the registry never holds two signers with the same group public key
\* and member index, and neither does what getSigners returns; a
\* registerSigner call for a pair that is registered leaves the registry
\* with the one entry of that pair.
C24_IdempotentRegistration ==
  /\ [](OnePerPair(walletRegistry))
  /\ [](\A groupPublicKey \in {"K", "L"} :
          /\ OnePerPair(getSigners(walletRegistry, groupPublicKey))
          /\ \A i \in DOMAIN getSigners(walletRegistry, groupPublicKey) :
               getSigners(walletRegistry, groupPublicKey)[i].wallet
                 = groupPublicKey)
  /\ [][\A m \in DOMAIN tasks :
          (tasks[m].pc = "registering" /\ tasks'[m].pc = "done")
            => /\ (tasks[m].found \/ tasks'[m].end = "registered")
                    => Cardinality(EntriesFor(walletRegistry', SignerOf(m))) = 1
               /\ tasks[m].found => walletRegistry' = walletRegistry]_vars

\* Two tasks of the node have called registerSigner with the same pair: one
\* is registered, the other found the pair, and the registry has it once.
C24_Witness ==
  \E m, o \in DOMAIN tasks :
    /\ m # o
    /\ tasks[m].end = "registered"
    /\ tasks[o].pc = "done" /\ tasks[o].found
    /\ SignerKey(SignerOf(m)) = SignerKey(SignerOf(o))
    /\ Cardinality(EntriesFor(walletRegistry, SignerOf(o))) = 1

C26_ConcurrentRegistration ==
  /\ [](\A m, o \in DOMAIN tasks :
          (tasks[m].pc = "registering" /\ tasks[o].pc = "registering")
            => m = o)
  /\ [](\A m \in DOMAIN tasks :
          tasks[m].pc = "registering"
            => /\ registryMutex = m
               /\ tasks[m].found = Registered(walletRegistry, SignerOf(m)))
  /\ [](\A m \in DOMAIN tasks :
          (tasks[m].pc = "done"
             /\ (tasks[m].end = "registered" \/ tasks[m].found))
            => \E i \in DOMAIN walletRegistry :
                 \A j \in DOMAIN walletRegistry :
                   SignerKey(walletRegistry[j]) = SignerKey(SignerOf(m))
                     <=> j = i)
  /\ [][/\ Len(walletRegistry') \in {Len(walletRegistry),
                                     Len(walletRegistry) + 1}
        /\ SubSeq(walletRegistry', 1, Len(walletRegistry))
             = walletRegistry]_vars

\* A task holds the registry's mutex and has not found its pair, while
\* another task of the node waits to register a signer of the same pair.
C26_Witness ==
  \E m, o \in DOMAIN tasks :
    /\ m # o
    /\ tasks[m].pc = "registering" /\ ~tasks[m].found
    /\ tasks[o].pc = "register"
    /\ SignerKey(SignerOf(m)) = SignerKey(SignerOf(o))

\* The operator's address occurs nowhere in the selected group.
NotSelected == \A i \in DOMAIN env.selected : env.selected[i] # operatorAddress

\* C27: when the operator's address does not occur in the selected group,
\* joinDKGIfEligible opens no broadcast channel and starts no member task,
\* the protocol latch is never taken and the wallet registry stays as it
\* was; the call ends with the info line "not eligible for DKG" unless it
\* ended before it looked for the address.
C27_IneligibleNoOp ==
  /\ [](NotSelected
          => /\ broadcastChannel = "none"
             /\ tasks = <<>>
             /\ protocolLatch = 0
             /\ registryMutex = 0)
  /\ []((NotSelected /\ joinPc = "returned" /\ env.fails = "none"
           /\ Len(env.selected) <= GroupSize)
          => <<"info", "not eligible for DKG">> \in logged)
  /\ [][NotSelected
          => UNCHANGED <<walletRegistry, protocolLatch, broadcastChannel,
                         tasks>>]_vars

\* joinDKGIfEligible has returned for a full group of other operators and
\* the registry holds what it held.
C27_Witness ==
  /\ joinPc = "returned"
  /\ Len(env.selected) = GroupSize
  /\ NotSelected
  /\ <<"info", "not eligible for DKG">> \in logged
  /\ walletRegistry = <<PriorSigner>>

\* C28: a member task runs its retry loop only on a broadcast channel that
\* has the membership validator's filter.
C28_FilterInstalled ==
  \A m \in DOMAIN tasks :
    tasks[m].pc \in {"retryLoop", "publish"} => broadcastChannel = "filtered"

\* The tasks that hold the protocol latch: started and not ended.
Running == {m \in DOMAIN tasks : tasks[m].pc \notin {"spawned", "done"}}

\* C29: the protocol latch has one holder for each member task that has
\* started and not ended, whichever way the tasks ended, and none once all
\* tasks have ended.
C29_LatchHeld ==
  /\ [](protocolLatch = Cardinality(Running))
  /\ [](AllTasksDone => protocolLatch = 0)
  /\ [][\A m \in DOMAIN tasks :
          /\ (tasks[m].pc = "spawned" /\ tasks'[m].pc # "spawned")
               => protocolLatch' = protocolLatch + 1
          /\ (tasks[m].pc # "done" /\ tasks'[m].pc = "done")
               => (m \in Running /\ protocolLatch' = protocolLatch - 1)]_vars

\* One task of the node has ended with an error while another still runs
\* and holds the latch.
C29_Witness ==
  \E m, o \in DOMAIN tasks :
    /\ tasks[m].pc = "done"
    /\ tasks[m].end \notin {Nil, "registered"}
    /\ tasks[o].pc = "registering"
    /\ protocolLatch = 1

\* The member indexes of the seats the operator holds.
ControlledSeats == {i \in DOMAIN env.selected : env.selected[i] = operatorAddress}

\* C30, as stated: joinDKGIfEligible, when its calls to the chain and the
\* network return no error, starts one member task for each seat of the
\* selected group the operator holds.
C30_AsStated ==
  (joinPc = "returned" /\ env.fails \in {"none", "SetFilter"}
     /\ Len(env.selected) <= GroupSize)
    => DOMAIN tasks = ControlledSeats

\* C30, amended: joinDKGIfEligible starts one member task for each seat p
\* (from 0) the operator holds, with member index p + 1, when the group is
\* no larger than groupSize, the pool has at least as many pre-parameters
\* as the operator holds seats, and its calls other than SetFilter return
\* no error; otherwise it starts none. The member indexes of the tasks are
\* distinct, lie in 1..groupSize, and do not change.
C30_OneTaskPerSeat ==
  /\ [](joinPc = "returned"
          => IF /\ env.fails \in {"none", "SetFilter"}
                /\ Len(env.selected) <= GroupSize
                /\ Cardinality(ControlledSeats) <= env.preParamsCount
               THEN DOMAIN tasks = ControlledSeats
               ELSE tasks = <<>>)
  /\ [](joinPc = "called" => tasks = <<>>)
  /\ [](DOMAIN tasks \subseteq 1..GroupSize)
  /\ [][joinPc = "returned" => DOMAIN tasks' = DOMAIN tasks]_vars

\* The operator holds two seats, the second and the last of the group, and
\* both tasks have started.
C30_Witness ==
  /\ joinPc = "returned"
  /\ DOMAIN tasks = {2, GroupSize}
  /\ env.selected[2] = operatorAddress
  /\ env.selected[GroupSize] = operatorAddress
  /\ Running = {2, GroupSize}

----------------------------------------------------------------------------
(* C33: parameters persist and change only while no DKG is in progress. *)

SetterOf ==
  [resultChallengePeriodLength |-> "setResultChallengePeriodLength",
   resultSubmissionEligibilityDelay |-> "setResultSubmissionEligibilityDelay"]

\* The step changed parameter p through its own set function, called in
\* phase IDLE with the positive value the parameter now has.
ChangedBySetter(p) ==
  /\ lastCall'.op = SetterOf[p]
  /\ lastCall'.outcome = "ok"
  /\ CurrentStateAt(self, blockNumber) = "IDLE"
  /\ lastCall'.arg = <<self'.parameters[p]>>
  /\ self'.parameters[p] > 0
  /\ \A q \in DOMAIN SetterOf \ {p} :
        self'.parameters[q] = self.parameters[q]

ParameterStep ==
  \A p \in DOMAIN SetterOf :
    self'.parameters[p] # self.parameters[p] => ChangedBySetter(p)

\* C33: resultChallengePeriodLength and resultSubmissionEligibilityDelay are
\* changed only by their set functions, only while the phase is IDLE and
\* only to values greater than zero; while the phase is not IDLE both keep
\* their values, and neither is ever zero.
C33_ParametersPersist ==
  /\ [][ParameterStep]_vars
  /\ [][CurrentStateAt(self, blockNumber) # "IDLE"
          => self'.parameters = self.parameters]_vars
  /\ [](\A p \in DOMAIN SetterOf : self.parameters[p] > 0)

\* A set function was rejected during a session whose parameters had been
\* changed, while IDLE, from their initial values.
C33_Witness ==
  /\ lastCall.op = "setResultSubmissionEligibilityDelay"
  /\ lastCall.outcome = "current state is not IDLE"
  /\ self.startBlock # 0
  /\ self.parameters.resultChallengePeriodLength = 2
  /\ self.parameters.resultSubmissionEligibilityDelay = 2
  /\ lastCall.arg = <<1>>

----------------------------------------------------------------------------
(* ManagedGrant (AuthorizeThresholdContracts.jsx 206-308). *)

\* The ledger, the member task and joinDKGIfEligible at rest.
CoreAtRest ==
  /\ lib = Deployed
  /\ blockNumber = 1
  /\ self = InitData(1, 1)
  /\ lastCall = NoCall
  /\ accepted = 0
  /\ session = [seed |-> MaxSeed, startBlockNumber |-> 1, memberIndex |-> 1]
  /\ TaskInit
  /\ NoJoin

(* modifier onlyGrantee *)
onlyGrantee(g, sender) ==
  IF sender # g.grantee THEN "Only grantee may perform this action" ELSE "ok"

(* modifier onlyGranteeOr(_operator) *)
onlyGranteeOr(g, sender, operator) ==
  IF ~(sender = g.grantee \/ sender = operator)
    THEN "Only grantee or operator may perform this action"
    ELSE "ok"

(* modifier onlyManager *)
onlyManager(sender) ==
  IF sender # grantManager THEN "Only grantManager may perform this action"
  ELSE "ok"

(* requestGranteeReassignment: "ok", or the failing require's message. *)
RequestOutcome(g, sender, newGrantee) ==
  IF onlyGrantee(g, sender) # "ok" THEN onlyGrantee(g, sender)
  ELSE IF g.requestedNewGrantee # ZeroAddress
    THEN "Reassignment already requested"
  ELSE IF newGrantee = ZeroAddress THEN "Invalid new grantee address"
  ELSE IF newGrantee = g.grantee THEN "Unchanged new grantee address"
  ELSE "ok"

\* Faulty variant: any address confirms a pending request.
ConfirmOutcomeAnyAddress(g, sender, newGrantee) ==
  IF onlyManager(sender) # "ok" THEN onlyManager(sender)
  ELSE IF g.requestedNewGrantee = ZeroAddress
    THEN "No reassignment requested"
  ELSE "ok"

(* confirmGranteeReassignment: "ok", or the failing require's message. *)
ConfirmOutcome(g, sender, newGrantee) ==
  IF onlyManager(sender) # "ok" THEN onlyManager(sender)
  ELSE IF g.requestedNewGrantee = ZeroAddress
    THEN "No reassignment requested"
  ELSE IF g.requestedNewGrantee # newGrantee
    THEN "Reassignment address mismatch"
  ELSE "ok"

(* withdraw, up to the call of tokenGrant.withdraw. *)
WithdrawOutcome(g, sender) ==
  IF onlyGrantee(g, sender) # "ok" THEN onlyGrantee(g, sender)
  ELSE IF g.requestedNewGrantee # ZeroAddress
    THEN "Can not withdraw with pending reassignment"
  ELSE "ok"

GrantCalled(op, sender, arg, outcome) ==
  grantCall' = [op |-> op, sender |-> sender, arg |-> arg,
                outcome |-> outcome]

GrantFrame == UNCHANGED <<coreVars, rewardsVars, signingGroup, maintainer>>

(* requestGranteeReassignment(_newGrantee) *)
RequestGranteeReassignment(sender, newGrantee) ==
  LET outcome == RequestOutcome(managedGrant, sender, newGrantee) IN
  /\ managedGrant' =
       IF outcome = "ok"
         THEN [managedGrant EXCEPT !.requestedNewGrantee = newGrantee]
         ELSE managedGrant
  /\ GrantCalled("requestGranteeReassignment", sender, <<newGrantee>>,
                 outcome)
  /\ GrantFrame

(* confirmGranteeReassignment(_newGrantee) *)
ConfirmGranteeReassignment(sender, newGrantee) ==
  LET outcome == ConfirmOutcome(managedGrant, sender, newGrantee) IN
  /\ managedGrant' =
       IF outcome = "ok"
         THEN [managedGrant EXCEPT
                 !.grantee = managedGrant.requestedNewGrantee,
                 !.requestedNewGrantee = ZeroAddress]
         ELSE managedGrant
  /\ GrantCalled("confirmGranteeReassignment", sender, <<newGrantee>>,
                 outcome)
  /\ GrantFrame

(* withdraw(): tokenGrant.withdraw hands amount over to the contract, and
   the contract's whole balance goes to the grantee. *)
Withdraw(sender, amount) ==
  LET outcome == WithdrawOutcome(managedGrant, sender) IN
  /\ amount <= managedGrant.withdrawable
  /\ outcome # "ok" => amount = 0
  /\ managedGrant' =
       IF outcome = "ok"
         THEN [managedGrant EXCEPT
                 !.withdrawable = @ - amount,
                 !.received[managedGrant.grantee] = @ + amount]
         ELSE managedGrant
  /\ GrantCalled("withdraw", sender, <<>>, outcome)
  /\ GrantFrame

(* withdraw() when tokenGrant.withdraw reverts: the transaction reverts. *)
WithdrawReverts(sender) ==
  /\ WithdrawOutcome(managedGrant, sender) = "ok"
  /\ GrantCalled("withdraw", sender, <<>>, "tokenGrant.withdraw reverted")
  /\ UNCHANGED managedGrant
  /\ GrantFrame

(* stake and recoverStake: passed on to TokenGrant for the grantee. *)
GranteeCall(op, sender) ==
  /\ GrantCalled(op, sender, <<>>, onlyGrantee(managedGrant, sender))
  /\ UNCHANGED managedGrant
  /\ GrantFrame

(* cancelStake and undelegate: passed on for the grantee or the operator. *)
GranteeOrOperatorCall(op, sender, operator) ==
  /\ GrantCalled(op, sender, <<operator>>,
                 onlyGranteeOr(managedGrant, sender, operator))
  /\ UNCHANGED managedGrant
  /\ GrantFrame

GrantInit ==
  /\ CoreAtRest
  /\ NoMaintainer
  /\ NoRewards
  /\ NoSigning
  /\ managedGrant \in {GrantDeployed(grantee, MaxGrant) :
                          grantee \in Addresses}
  /\ grantCall = NoGrantCall

GrantNext ==
  \/ \E sender \in Senders : \E newGrantee \in Addresses :
       RequestGranteeReassignment(sender, newGrantee)
  \/ \E sender \in Senders : \E newGrantee \in Addresses :
       ConfirmGranteeReassignment(sender, newGrantee)
  \/ \E sender \in Senders : \E amount \in 0..MaxGrant :
       Withdraw(sender, amount)
  \/ \E sender \in Senders : WithdrawReverts(sender)
  \/ \E sender \in Senders : \E op \in {"stake", "recoverStake"} :
       GranteeCall(op, sender)
  \/ \E sender, operator \in Senders :
       \E op \in {"cancelStake", "undelegate"} :
         GranteeOrOperatorCall(op, sender, operator)

SpecGrant == GrantInit /\ [][GrantNext]_vars

----------------------------------------------------------------------------
(* C40: managed grant reassignment. *)

Pending == managedGrant.requestedNewGrantee # ZeroAddress

\* The grantee changes only in a confirmation by the manager that names
\* the pending request, and becomes the requested address.
GranteeStep ==
  managedGrant'.grantee # managedGrant.grantee
    => /\ grantCall'.op = "confirmGranteeReassignment"
       /\ grantCall'.outcome = "ok"
       /\ grantCall'.sender = grantManager
       /\ Pending
       /\ grantCall'.arg = <<managedGrant.requestedNewGrantee>>
       /\ managedGrant'.grantee = managedGrant.requestedNewGrantee

\* A request becomes pending only when none is, by a call of the grantee
\* naming it; it ends only in a confirmation.
RequestStep ==
  managedGrant'.requestedNewGrantee # managedGrant.requestedNewGrantee
    => IF Pending
         THEN /\ grantCall'.op = "confirmGranteeReassignment"
              /\ grantCall'.outcome = "ok"
              /\ managedGrant'.requestedNewGrantee = ZeroAddress
         ELSE /\ grantCall'.op = "requestGranteeReassignment"
              /\ grantCall'.outcome = "ok"
              /\ grantCall'.sender = managedGrant.grantee
              /\ grantCall'.arg = <<managedGrant'.requestedNewGrantee>>

ConfirmationClears ==
  (grantCall'.op = "confirmGranteeReassignment" /\ grantCall'.outcome = "ok")
    => managedGrant'.requestedNewGrantee = ZeroAddress

WithdrawWhilePending ==
  (grantCall'.op = "withdraw" /\ Pending)
    => /\ grantCall'.outcome # "ok"
       /\ managedGrant' = managedGrant

RequestWhilePending ==
  (grantCall'.op = "requestGranteeReassignment" /\ Pending)
    => /\ grantCall'.outcome # "ok"
       /\ managedGrant' = managedGrant

\* C40: the grantee of a ManagedGrant changes only through
\* confirmGranteeReassignment called by the grant manager with exactly the
\* address the current grantee requested before; at most one request is
\* pending at a time, a confirmation clears it, and withdraw is rejected
\* for as long as a request is pending.
C40_Reassignment ==
  /\ [][GranteeStep]_vars
  /\ [][RequestStep]_vars
  /\ [][ConfirmationClears]_vars
  /\ [][WithdrawWhilePending]_vars
  /\ [][RequestWhilePending]_vars

\* The grantee that took over from account 2 withdraws: both hold tokens
\* of the grant.
C40_Witness ==
  /\ grantCall.op = "withdraw"
  /\ grantCall.outcome = "ok"
  /\ grantCall.sender = 3
  /\ managedGrant.grantee = 3
  /\ managedGrant.received[2] = 1
  /\ managedGrant.received[3] = 1

----------------------------------------------------------------------------
(* Rewards and BeaconBackportRewards
   (AuthorizeThresholdContracts.jsx 316-438, 501-966). *)

(* intervalOf(timestamp) *)
intervalOf(timestamp) ==
  IF timestamp < firstIntervalStart THEN 0
  ELSE (timestamp - firstIntervalStart) \div termLength

(* startOf(interval) *)
startOf(interval) == firstIntervalStart + interval * termLength

(* endOf(interval) *)
endOf(interval) == startOf(interval + 1)

(* _isFinished(interval) *)
isFinished(now, interval) == now >= endOf(interval)

(* _assignedInterval: the first interval whose last group is not below the
   index; 0 when the loop ends without a return. *)
assignedInterval(groupIndex) ==
  LET found == {interval \in Intervals :
                  At(lastGroupOfInterval, interval) >= groupIndex}
  IN IF found = {} THEN 0
     ELSE CHOOSE interval \in found : \A other \in found : interval <= other

(* _getKeepCount() *)
getKeepCount == lastEligibleGroup + 1

(* _getCreationTime(_getKeepAtIndex(i)) *)
getCreationTime(groupIndex) == startOf(assignedInterval(groupIndex))

(* _isTerminated *)
isTerminated(r, groupIndex) == groupIndex \in r.excludedGroups

(* _isClosed: the groups below index stale are the stale ones. *)
isClosed(r, stale, groupIndex) ==
  IF isTerminated(r, groupIndex) THEN FALSE ELSE groupIndex < stale

(* _recognizedByFactory *)
recognizedByFactory(groupIndex) == lastEligibleGroup >= groupIndex

RECURSIVE find(_, _, _)
(* _find: the binary search between lb and ub. *)
find(lb, ub, targetTime) ==
  IF ub - lb > 1
    THEN LET mid == lb + ((ub - lb) \div 2) IN
         IF getCreationTime(mid) >= targetTime
           THEN find(lb, mid, targetTime)
           ELSE find(mid, ub, targetTime)
    ELSE ub

(* _findEndpoint, for an endpoint that is not after block.timestamp. *)
findEndpoint(intervalEndpoint) ==
  IF getKeepCount = 0 THEN 0
  ELSE IF getCreationTime(0) >= intervalEndpoint THEN 0
  ELSE IF getCreationTime(getKeepCount - 1) < intervalEndpoint
    THEN getKeepCount
  ELSE find(0, getKeepCount - 1, intervalEndpoint)

(* _getEndpoint: the value returned. *)
getEndpoint(r, interval) ==
  IF r.keepsByInterval[interval] = 0
    THEN findEndpoint(endOf(interval))
    ELSE r.keepsByInterval[interval]

(* _getEndpoint: the endpoint found is kept when it is not zero. *)
afterGetEndpoint(r, interval) ==
  IF r.keepsByInterval[interval] = 0 /\ findEndpoint(endOf(interval)) # 0
    THEN [r EXCEPT !.keepsByInterval[interval] =
                     findEndpoint(endOf(interval))]
    ELSE r

(* _getPreviousEndpoint *)
getPreviousEndpoint(r, interval) ==
  IF interval = 0 THEN 0 ELSE getEndpoint(r, interval - 1)

(* _keepsInInterval: the value returned. *)
keepsInInterval(r, interval) ==
  getEndpoint(r, interval) - getPreviousEndpoint(r, interval)

(* _keepsInInterval: what its two calls of _getEndpoint store. *)
afterKeepsInInterval(r, interval) ==
  IF interval = 0 THEN afterGetEndpoint(r, interval)
  ELSE afterGetEndpoint(afterGetEndpoint(r, interval), interval - 1)

(* _getIntervalWeight *)
getIntervalWeight(interval) ==
  IF interval < Len(intervalWeights) THEN At(intervalWeights, interval)
  ELSE 100

(* _baseAllocation *)
baseAllocation(r, interval) ==
  (r.unallocatedRewards * getIntervalWeight(interval)) \div 100

Max(a, b) == IF a >= b THEN a ELSE b

(* _adjustedAllocation: the value returned. *)
adjustedAllocation(r, interval) ==
  IF baseAllocation(r, interval) = 0 THEN 0
  ELSE (baseAllocation(r, interval)
          \div Max(keepsInInterval(r, interval), minimumKeepsPerInterval))
       * keepsInInterval(r, interval)

(* _adjustedAllocation: what it stores. *)
afterAdjustedAllocation(r, interval) ==
  IF baseAllocation(r, interval) = 0 THEN r
  ELSE afterKeepsInInterval(r, interval)

Reverted(message, r) == [err |-> message, st |-> r]

RECURSIVE _allocateRewards(_, _, _)
(* _allocateRewards: err is "ok" or the failing require's message, st the
   storage it leaves. *)
_allocateRewards(r, now, interval) ==
  IF ~isFinished(now, interval)
    THEN Reverted("Interval hasn't ended yet", r)
  ELSE IF interval < Len(r.intervalAllocations)
    THEN Reverted("Interval already allocated", r)
  ELSE
    LET earlier == IF interval > Len(r.intervalAllocations)
                     THEN _allocateRewards(r, now, interval - 1)
                     ELSE Reverted("ok", r)
        totalAllocation == adjustedAllocation(earlier.st, interval)
    IN IF earlier.err # "ok" THEN Reverted(earlier.err, r)
       ELSE Reverted("ok",
              [afterAdjustedAllocation(earlier.st, interval) EXCEPT
                 !.unallocatedRewards = @ - totalAllocation,
                 !.intervalAllocations = Append(@, totalAllocation)])

\* Faulty variant: the remainder of the division is not paid.
distributeRewardNoRemainder(groupIndex, value) ==
  LET members == getGroupMembers(groupIndex)
      memberCount == Len(members)
      dividend == value \div memberCount
  IN [i \in 1..memberCount |-> <<beneficiaryOf(members[i]), dividend>>]

(* _distributeReward: the transfers it makes, as <<recipient, amount>>. *)
distributeReward(groupIndex, value) ==
  LET members == getGroupMembers(groupIndex)
      memberCount == Len(members)
      dividend == value \div memberCount
      remainder == value % memberCount
  IN (IF dividend > 0
        THEN [i \in 1..(memberCount - 1) |->
                <<beneficiaryOf(members[i]), dividend>>]
        ELSE <<>>)
     \o <<<<beneficiaryOf(members[memberCount]), dividend + remainder>>>>

(* _processKeep: err, the storage it leaves and the transfers it makes. *)
processKeep(r, now, eligible, keep) ==
  LET interval == intervalOf(getCreationTime(keep))
      allocated == IF ~(interval < Len(r.intervalAllocations))
                     THEN _allocateRewards(r, now, interval)
                     ELSE Reverted("ok", r)
      a == allocated.st
      allocation == At(a.intervalAllocations, interval)
      perKeepReward == allocation \div keepsInInterval(a, interval)
      processed == [afterKeepsInInterval(a, interval) EXCEPT
                      !.claimed = @ \cup {keep},
                      !.intervalKeepsProcessed[interval] = @ + 1]
  IN IF allocated.err # "ok"
       THEN [err |-> allocated.err, st |-> r, transfers |-> <<>>]
     ELSE IF ~isFinished(now, interval)
       THEN [err |-> "Interval hasn't ended yet", st |-> r,
             transfers |-> <<>>]
     ELSE IF keepsInInterval(a, interval) = 0
       THEN [err |-> "SafeMath: division by zero", st |-> r,
             transfers |-> <<>>]
     ELSE IF eligible
       THEN [err |-> "ok",
             st |-> [processed EXCEPT !.paidOutRewards = @ + perKeepReward],
             transfers |-> distributeReward(keep, perKeepReward)]
     ELSE [err |-> "ok",
           st |-> [processed EXCEPT
                     !.unallocatedRewards = @ + perKeepReward],
           transfers |-> <<>>]

RECURSIVE Total(_)
\* The sum of the amounts of a sequence of transfers.
Total(transfers) ==
  IF transfers = <<>> THEN 0
  ELSE transfers[1][2] + Total(Tail(transfers))

\* What the transfers pay to one recipient.
PaidTo(transfers, recipient) ==
  Total(SelectSeq(transfers, LAMBDA t : t[1] = recipient))

(* token.safeTransfer from the rewards contract, one call per transfer. *)
safeTransfers(t, transfers) ==
  [t EXCEPT
     !.rewards = @ - Total(transfers),
     !.balanceOf = [a \in Recipients |-> @[a] + PaidTo(transfers, a)]]

\* Faulty variant: the modifier rewardsNotClaimed is missing.
ProcessOutcomeNoClaimCheck(r, chain, eligible, keep) ==
  IF ~recognizedByFactory(keep)
    THEN [err |-> "Keep address not recognized by factory", st |-> r,
          transfers |-> <<>>]
  ELSE IF eligible /\ ~isClosed(r, chain.stale, keep)
    THEN [err |-> "Keep is not closed", st |-> r, transfers |-> <<>>]
  ELSE IF ~eligible /\ ~isTerminated(r, keep)
    THEN [err |-> "Keep is not terminated", st |-> r, transfers |-> <<>>]
  ELSE processKeep(r, chain.timestamp, eligible, keep)

(* receiveReward and reportTermination: the modifiers, then _processKeep. *)
ProcessOutcome(r, chain, eligible, keep) ==
  IF ~recognizedByFactory(keep)
    THEN [err |-> "Keep address not recognized by factory", st |-> r,
          transfers |-> <<>>]
  ELSE IF keep \in r.claimed
    THEN [err |-> "Rewards already claimed", st |-> r, transfers |-> <<>>]
  ELSE IF eligible /\ ~isClosed(r, chain.stale, keep)
    THEN [err |-> "Keep is not closed", st |-> r, transfers |-> <<>>]
  ELSE IF ~eligible /\ ~isTerminated(r, keep)
    THEN [err |-> "Keep is not terminated", st |-> r, transfers |-> <<>>]
  ELSE processKeep(r, chain.timestamp, eligible, keep)

\* The call's storage and transfers take effect unless a transfer fails
\* for lack of balance, which reverts the transaction.
RewardsCalled(op, arg, result) ==
  LET paid == result.err = "ok" /\ Total(result.transfers) <= token.rewards
      err == IF result.err # "ok" THEN result.err
             ELSE IF ~paid THEN "SafeERC20: low-level call failed"
             ELSE "ok"
  IN
  /\ rewards' = IF err = "ok" THEN result.st ELSE rewards
  /\ token' = IF err = "ok" THEN safeTransfers(token, result.transfers)
               ELSE token
  /\ rewardsCall' = [op |-> op, arg |-> arg, outcome |-> err,
                     transfers |-> IF err = "ok" THEN result.transfers
                                   ELSE <<>>]

RewardsFrame == UNCHANGED <<coreVars, grantVars, signingGroup, maintainer>>

(* receiveReward(keepIdentifier) *)
ReceiveReward(keep) ==
  /\ RewardsCalled("receiveReward", <<keep>>,
                   ProcessOutcome(rewards, operatorContract, TRUE, keep))
  /\ UNCHANGED operatorContract
  /\ RewardsFrame

(* reportTermination(keepIdentifier) *)
ReportTermination(keep) ==
  /\ RewardsCalled("reportTermination", <<keep>>,
                   ProcessOutcome(rewards, operatorContract, FALSE, keep))
  /\ UNCHANGED operatorContract
  /\ RewardsFrame

(* receiveApproval(_from, _value, _token, ) *)
ReceiveApproval(value, supported) ==
  LET currentBalance == token.rewards + value
      beforeBalance == rewards.totalRewards - rewards.paidOutRewards
      addedBalance == currentBalance - beforeBalance
      err == IF ~supported THEN "Unsupported token"
             ELSE IF value > token.funder
               THEN "SafeERC20: low-level call failed"
             ELSE IF ~(currentBalance >= beforeBalance)
               THEN "Reward contract has lost tokens"
             ELSE "ok"
  IN
  /\ rewards' = IF err = "ok"
                 THEN [rewards EXCEPT
                         !.totalRewards = @ + addedBalance,
                         !.unallocatedRewards = @ + addedBalance]
                 ELSE rewards
  /\ token' = IF err = "ok"
               THEN [token EXCEPT !.funder = @ - value,
                                  !.rewards = @ + value]
               ELSE token
  /\ rewardsCall' = [op |-> "receiveApproval", arg |-> <<value>>,
                     outcome |-> err, transfers |-> <<>>]
  /\ UNCHANGED operatorContract
  /\ RewardsFrame

(* allocateRewards, which withdrawExcess calls: the public function of
   Rewards that runs _allocateRewards. *)
allocateRewards(r, now, interval) == _allocateRewards(r, now, interval)

(* withdrawExcess(): allocates up to the last interval when that is still
   to be done, then sends the unallocated rewards to excessRecipient. *)
WithdrawExcessOutcome(r, now) ==
  LET allocated == IF lastInterval >= Len(r.intervalAllocations)
                     THEN allocateRewards(r, now, lastInterval)
                     ELSE Reverted("ok", r)
  IN IF ~isFinished(now, lastInterval)
       THEN [err |-> "Interval hasn't ended yet", st |-> r,
             transfers |-> <<>>]
     ELSE IF allocated.err # "ok"
       THEN [err |-> allocated.err, st |-> r, transfers |-> <<>>]
     ELSE [err |-> "ok",
           st |-> [allocated.st EXCEPT !.unallocatedRewards = 0],
           transfers |->
             <<<<excessRecipient, allocated.st.unallocatedRewards>>>>]

WithdrawExcess ==
  /\ RewardsCalled("withdrawExcess", <<>>,
                   WithdrawExcessOutcome(rewards, operatorContract.timestamp))
  /\ UNCHANGED operatorContract
  /\ RewardsFrame

(* A second passes. *)
RewardsTick ==
  /\ operatorContract.timestamp < MaxTime
  /\ operatorContract' = [operatorContract EXCEPT !.timestamp = @ + 1]
  /\ rewardsCall' = NoRewardsCall
  /\ UNCHANGED <<rewards, token>>
  /\ RewardsFrame

(* operatorContract.isStaleGroup turns true for the oldest group that is
   not stale: groups expire in the order of their creation. *)
GroupBecomesStale ==
  /\ operatorContract.stale < getKeepCount
  /\ operatorContract' = [operatorContract EXCEPT !.stale = @ + 1]
  /\ rewardsCall' = NoRewardsCall
  /\ UNCHANGED <<rewards, token>>
  /\ RewardsFrame

RewardsInit ==
  /\ CoreAtRest
  /\ NoMaintainer
  /\ NoGrant
  /\ NoSigning
  /\ rewards \in {RewardsDeployed(excluded) : excluded \in SUBSET Groups}
  /\ token = TokenInit
  /\ operatorContract = [timestamp |-> 0, stale |-> 0]
  /\ rewardsCall = NoRewardsCall

RewardsNext ==
  \/ \E value \in 0..MaxFunds : ReceiveApproval(value, TRUE)
  \/ ReceiveApproval(0, FALSE)
  \/ \E keep \in Keeps : ReceiveReward(keep)
  \/ \E keep \in Keeps : ReportTermination(keep)
  \/ WithdrawExcess
  \/ RewardsTick
  \/ GroupBecomesStale

SpecRewards == RewardsInit /\ [][RewardsNext]_vars

----------------------------------------------------------------------------
(* C34: the accounting of the rewards contract. *)

(* _unpaidRewards() *)
unpaidRewards(r) == r.totalRewards - r.paidOutRewards

\* C34: after any sequence of receiveApproval, receiveReward,
\* reportTermination and withdrawExcess calls the token balance held by the
\* rewards contract equals totalRewards - paidOutRewards.
C34_BalanceMatchesAccounting == token.rewards = unpaidRewards(rewards)

\* What holds instead: the balance falls short of the unpaid rewards by
\* what withdrawExcess has sent to excessRecipient since the last funding.
ShortByExcess ==
  /\ token.rewards <= unpaidRewards(rewards)
  /\ unpaidRewards(rewards) - token.rewards <= token.balanceOf[excessRecipient]

----------------------------------------------------------------------------
(* C39: _distributeReward on its own, for every value up to MaxValue and
   every group. *)

\* The largest balance the contract distributes from.
MaxValue == 7

(* _distributeReward(groupIndexBytes, _value), paid from the contract's
   balance. *)
DistributeReward(groupIndex, value) ==
  /\ value <= token.rewards
  /\ token' = safeTransfers(token, distributeReward(groupIndex, value))
  /\ rewardsCall' = [op |-> "_distributeReward",
                     arg |-> <<groupIndex, value>>, outcome |-> "ok",
                     transfers |-> distributeReward(groupIndex, value)]
  /\ UNCHANGED <<rewards, operatorContract>>
  /\ RewardsFrame

DistributeInit ==
  /\ CoreAtRest
  /\ NoMaintainer
  /\ NoGrant
  /\ NoSigning
  /\ rewards = RewardsDeployed({})
  /\ token \in {[TokenInit EXCEPT !.rewards = value, !.funder = 0] :
                   value \in 0..MaxValue}
  /\ operatorContract = [timestamp |-> 0, stale |-> 0]
  /\ rewardsCall = NoRewardsCall

DistributeNext ==
  \E groupIndex \in Groups : \E value \in 0..MaxValue :
    DistributeReward(groupIndex, value)

SpecDistribute == DistributeInit /\ [][DistributeNext]_vars

\* What the step added to the balance of a member's beneficiary.
Received(member) ==
  token'.balanceOf[beneficiaryOf(member)]
    - token.balanceOf[beneficiaryOf(member)]

\* The step is a call of _distributeReward that paid value to the n members
\* of the group as the claim says.
Distributed(groupIndex, value) ==
  LET members == getGroupMembers(groupIndex)
      n == Len(members)
      quotient == value \div n
  IN /\ token.rewards - token'.rewards = value
     /\ \A i \in 1..(n - 1) : Received(members[i]) = quotient
     /\ Received(members[n]) = quotient + (value % n)
     /\ \A a \in Recipients :
          a \notin {beneficiaryOf(members[i]) : i \in 1..n}
            => token'.balanceOf[a] = token.balanceOf[a]
     /\ Len(rewardsCall'.transfers) = IF quotient = 0 THEN 1 ELSE n

\* C39: for every _value >= 0 and every group of n >= 1 members,
\* _distributeReward transfers exactly _value tokens in total:
\* floor(_value / n) to each of the first n-1 members' beneficiaries, with
\* no transfer at all when that quotient is zero, and
\* floor(_value / n) + (_value mod n) to the last member's beneficiary.
C39_DistributionConserves ==
  [][rewardsCall'.op = "_distributeReward"
       => Distributed(rewardsCall'.arg[1], rewardsCall'.arg[2])]_vars

\* 5 tokens went to a group of three: 1, 1 and 3; before that 2 tokens
\* went to such a group, all to its last member.
C39_Witness ==
  /\ rewardsCall.arg = <<2, 5>>
  /\ rewardsCall.transfers = <<<<11, 1>>, <<12, 1>>, <<13, 3>>>>
  /\ token.balanceOf = (11 :> 1 @@ 12 :> 1 @@ 13 :> 5 @@ 20 :> 0)
  /\ token.rewards = 0

----------------------------------------------------------------------------
(* C38: a keep's reward is processed at most once. *)

Processing == {"receiveReward", "reportTermination"}

\* A call for a keep that was processed before is rejected and changes
\* neither the storage nor a balance.
RejectsProcessed ==
  (rewardsCall'.op \in Processing /\ rewardsCall'.arg[1] \in rewards.claimed)
    => /\ rewardsCall'.outcome # "ok"
       /\ rewards'.paidOutRewards = rewards.paidOutRewards
       /\ rewards'.unallocatedRewards = rewards.unallocatedRewards
       /\ rewards' = rewards
       /\ token' = token

\* A successful call marks its keep as processed, and the mark stays.
MarksProcessed ==
  /\ (rewardsCall'.op \in Processing /\ rewardsCall'.outcome = "ok")
       => rewardsCall'.arg[1] \in rewards'.claimed \ rewards.claimed
  /\ rewards.claimed \subseteq rewards'.claimed

\* receiveReward succeeds for a group that is stale and not excluded,
\* reportTermination for an excluded group.
SucceedsOnlyFor ==
  /\ (rewardsCall'.op = "receiveReward" /\ rewardsCall'.outcome = "ok")
       => /\ rewardsCall'.arg[1] < operatorContract.stale
          /\ rewardsCall'.arg[1] \notin rewards.excludedGroups
  /\ (rewardsCall'.op = "reportTermination" /\ rewardsCall'.outcome = "ok")
       => rewardsCall'.arg[1] \in rewards.excludedGroups

\* C38: after a successful receiveReward or reportTermination for a keep,
\* every later receiveReward or reportTermination for the same keep is
\* rejected and changes neither paidOutRewards, unallocatedRewards nor any
\* balance; receiveReward succeeds only for a closed keep and
\* reportTermination only for a terminated keep.
C38_ProcessedOnce ==
  /\ [][RejectsProcessed]_vars
  /\ [][MarksProcessed]_vars
  /\ [][SucceedsOnlyFor]_vars

\* reportTermination was rejected for a keep whose reward had been paid,
\* after another keep had been reported as terminated.
C38_Witness ==
  /\ rewardsCall.op = "reportTermination"
  /\ rewardsCall.outcome = "Rewards already claimed"
  /\ rewardsCall.arg = <<1>>
  /\ rewards.claimed = {1, 2}
  /\ rewards.excludedGroups = {2}
  /\ rewards.paidOutRewards > 0

----------------------------------------------------------------------------
(* C32: the outcomes of the retry loop. *)

\* The attempt function returns the Executor's failure to the retry loop.
FailureReturns ==
  /\ pc = "execute"
  /\ pc' # pc
  /\ Current.executor # "succeeded"

\* The loop goes on to the next attempt and returns nothing.
NextAttempt == pc' = "retryLoop" /\ retryResult' = retryResult

\* The loop ends with the timeout's error, which is not the attempt's.
TimeoutReturned ==
  /\ pc' = "returned"
  /\ retryResult' = [result |-> NilResult, err |-> "dkg timed out"]
  /\ retryResult'.err # DkgAttemptFnResult(Current).err

\* An attempt that starts has the number after the last attempt's.
NumbersFollow ==
  Len(attempts') > Len(attempts)
    => attempts'[Len(attempts')].number =
         IF attempts = <<>> THEN 1 ELSE Current.number + 1

\* A result returned by the loop is the result of a successful Executor
\* call, returned without an error.
ResultFromSuccess ==
  retryResult.result # NilResult
    => /\ retryResult.err = Nil
       /\ \E i \in DOMAIN attempts :
            /\ attempts[i].executor = "succeeded"
            /\ retryResult.result = ExecuteResult(attempts[i])

----------------------------------------------------------------------------
(* The signing group controller (node.go 460-539) and its signing
   operation. *)

\* Faulty variant: the controller allows a sixth attempt.
signingAttemptsLimitSix == 5 + 1

\* signingAttemptsLimit: 5
signingAttemptsLimit == 5

\* What can fail in createSigningGroupController.
ControllerFailures == {"none", "marshal", "channel", "filter", "blockCounter"}

\* chainConfig.HonestThreshold: the members a signature needs.
HonestThreshold == 2

(* createSigningGroupController: the error it returns, or "nil". *)
ControllerErr(controlled, fails) ==
  IF fails = "marshal" THEN "cannot marshal wallet public key"
  ELSE IF controlled = 0
    THEN "node does not control signers of wallet with public key"
  ELSE IF fails = "channel" THEN "failed to get broadcast channel"
  ELSE IF fails = "filter" THEN "could not set filter for channel"
  ELSE IF fails = "blockCounter" THEN "could not get block counter"
  ELSE "nil"

(* The controller createSigningGroupController returns. *)
Controller(controlled) ==
  [signers |-> controlled, broadcastChannel |-> "filtered",
   signingAttemptsLimit |-> signingAttemptsLimit]

SigningFrame == UNCHANGED <<coreVars, grantVars, rewardsVars, maintainer>>

CreateSigningGroupController ==
  LET err == ControllerErr(signingGroup.signers, signingGroup.fails) IN
  /\ signingGroup.pc = "called"
  /\ signingGroup' =
       [signingGroup EXCEPT
          !.pc = IF err = "nil" THEN "created" ELSE "returned",
          !.err = err,
          !.controller =
             IF err = "nil" THEN Controller(signingGroup.signers) ELSE "nil"]
  /\ SigningFrame

\* The signing loop of one signer before its first attempt.
SigningLoop == [number |-> 0, excluded |-> {}, state |-> "idle"]

(* The signing operation is called: one loop for each controlled signer. *)
Sign ==
  /\ signingGroup.pc = "created"
  /\ signingGroup' =
       [signingGroup EXCEPT
          !.pc = "signing",
          !.loops = [s \in 1..signingGroup.controller.signers |->
                       SigningLoop]]
  /\ SigningFrame

(* A signer's loop starts its next attempt while attempts are left. *)
StartSigningAttempt(s) ==
  /\ signingGroup.pc = "signing"
  /\ signingGroup.loops[s].state = "idle"
  /\ signingGroup.loops[s].number
       < signingGroup.controller.signingAttemptsLimit
  /\ signingGroup' = [signingGroup EXCEPT
                        !.loops[s].number = @ + 1,
                        !.loops[s].state = "attempting"]
  /\ SigningFrame

\* The members a signer's attempt counts on: those not excluded yet.
Included(loop) == (1..GroupSize) \ loop.excluded

(* An attempt ends: with the threshold reached, or with the non-responders
   excluded and the loop going on while attempts are left. *)
SigningAttemptEnds(s, responders) ==
  LET loop == signingGroup.loops[s] IN
  /\ signingGroup.pc = "signing"
  /\ loop.state = "attempting"
  /\ responders \subseteq Included(loop)
  /\ s \in responders
  /\ signingGroup' =
       [signingGroup EXCEPT
          !.loops[s] =
             IF Cardinality(responders) >= HonestThreshold
               THEN [loop EXCEPT !.state = "succeeded"]
               ELSE [loop EXCEPT
                       !.excluded = @ \cup (Included(loop) \ responders),
                       !.state =
                          IF loop.number
                               >= signingGroup.controller.signingAttemptsLimit
                            THEN "exhausted" ELSE "idle"]]
  /\ SigningFrame

Succeeded == {s \in DOMAIN signingGroup.loops :
                signingGroup.loops[s].state = "succeeded"}

Exhausted == {s \in DOMAIN signingGroup.loops :
                signingGroup.loops[s].state = "exhausted"}

(* The signing operation returns: the signature of a signer whose attempt
   reached the threshold, or an error once every loop is out of attempts. *)
SignReturns ==
  /\ signingGroup.pc = "signing"
  /\ Succeeded # {} \/ Exhausted = DOMAIN signingGroup.loops
  /\ signingGroup' =
       [signingGroup EXCEPT
          !.pc = "returned",
          !.signature = IF Succeeded # {} THEN "signature" ELSE "nil",
          !.err = IF Succeeded # {} THEN "nil"
                  ELSE "reached the limit of signing attempts"]
  /\ SigningFrame

SigningInit ==
  /\ CoreAtRest
  /\ NoMaintainer
  /\ NoGrant
  /\ NoRewards
  /\ signingGroup \in
       {[pc |-> "called", signers |-> controlled, fails |-> fails,
         controller |-> "nil", err |-> "nil", loops |-> <<>>,
         signature |-> "nil"] :
          controlled \in 0..MaxControlled, fails \in ControllerFailures}

SigningNext ==
  \/ CreateSigningGroupController
  \/ Sign
  \/ \E s \in DOMAIN signingGroup.loops : StartSigningAttempt(s)
  \/ \E s \in DOMAIN signingGroup.loops :
       \E responders \in SUBSET (1..GroupSize) :
         SigningAttemptEnds(s, responders)
  \/ SignReturns

SpecSigning == SigningInit /\ [][SigningNext]_vars

----------------------------------------------------------------------------
(* C31: the signing operation is bounded. *)

\* C31: a signing operation makes at most signingAttemptsLimit (5)
\* attempts; it ends either with the threshold reached and a signature, or,
\* once the attempts are exhausted, with an error returned to the caller;
\* it never ends with neither and never makes a sixth attempt.
C31_BoundedSigning ==
  /\ [](\A s \in DOMAIN signingGroup.loops :
          signingGroup.loops[s].number <= 5)
  /\ [](signingGroup.pc = "returned"
          => (signingGroup.signature = "nil") # (signingGroup.err = "nil"))
  /\ []((signingGroup.pc = "returned" /\ signingGroup.signature # "nil")
          => Succeeded # {})
  /\ []((signingGroup.pc = "returned" /\ signingGroup.loops # <<>>
            /\ signingGroup.err # "nil")
          => \A s \in DOMAIN signingGroup.loops :
               /\ signingGroup.loops[s].number = 5
               /\ signingGroup.loops[s].state = "exhausted")
  /\ [][(signingGroup.pc = "signing" /\ signingGroup'.pc # "signing")
          => signingGroup'.pc = "returned"]_vars

\* The operation has returned an error after both signers made five
\* attempts and excluded the two other members.
C31_Witness ==
  /\ signingGroup.pc = "returned"
  /\ signingGroup.err = "reached the limit of signing attempts"
  /\ Len(signingGroup.loops) = 2
  /\ \A s \in 1..2 : signingGroup.loops[s].number = 5
  /\ signingGroup.loops[1].excluded = {2, 3}

----------------------------------------------------------------------------
(* C36: the handler of DKGResultSubmitted events and the unbuffered
   dkgResultChannel (node.go 329-337). *)

\* The member task and the goroutines around it are scheduled as long as
\* they can take a step, and the timers fire.
SpecPublicationFair == SpecPublication /\ WF_vars(PublicationNext)

\* The handler calls blocked in `dkgResultChannel <- event`: the channel
\* has no buffer, so each event waits in its handler for a receiver.
BlockedHandlers == Len(dkgResultChannel)

\* C36: the handler never blocks forever: every event it sends on the
\* task's unbuffered dkgResultChannel is eventually received by the task,
\* or the handler is released when the task ends.
C36_HandlerReleased == (BlockedHandlers > 0) ~> (BlockedHandlers = 0)

\* The task has ended after a publication that succeeded and a handler is
\* still blocked in its send: nothing receives from the channel any more.
C36_BlockedForever ==
  /\ pc = "done"
  /\ BlockedHandlers > 0
  /\ signers # {}

\* ---------------------------------------------------------------------
\* The wallet maintainer's control loop (package wallet of
\* pkg/tbtc/maintainer).  Time is counted in units of ten seconds, the
\* initial delay of both tickers.  A ticker is its period d, the time
\* left until its next tick (due) and the ticks waiting in its channel
\* C, which holds one tick at most.
\* ---------------------------------------------------------------------

\* 10 * time.Second
initialRedemptionDelay == 1

\* 10 * time.Second
initialSweepDelay == 1

\* 3 * time.Hour
redemptionInterval == 1080

\* 48 * time.Hour
sweepInterval == 17280

\* The longest a run of the sweep task is followed, and the number of
\* runs that are counted.
MaxRunTime == 2

MaxRuns == 2

NewTicker(d) == [due |-> d, d |-> d, C |-> 0]

(* Ticker.Reset: the period becomes d and the next tick arrives after d.
   A tick that is already waiting in the channel stays there with the
   timers of Go before 1.23 and is discarded with those of Go 1.23; the
   sources do not fix the toolchain, so both outcomes are possible. *)
Reset(ticker, d) ==
  {[due |-> d, d |-> d, C |-> c] : c \in {ticker.C, 0}}

MaintainerFrame == UNCHANGED <<coreVars, grantVars, rewardsVars, signingGroup>>

\* The two calls of time.NewTicker; the loop then waits in its select.
StartControlLoop ==
  /\ maintainer.pc = "start"
  /\ maintainer' =
       [maintainer EXCEPT
          !.pc = "select",
          !.redemptionTicker = NewTicker(initialRedemptionDelay),
          !.sweepTicker = NewTicker(initialSweepDelay)]
  /\ MaintainerFrame

\* A case of the select can be taken.
SelectReady ==
  \/ maintainer.ctx = "cancelled"
  \/ maintainer.redemptionTicker.C = 1
  \/ maintainer.sweepTicker.C = 1

(* Ten seconds pass.  Every tick that is due has been sent, and the loop
   is either in the sweep task or waits in a select none of whose cases
   can be taken. *)
TimePasses ==
  /\ \/ maintainer.pc = "select" /\ ~SelectReady
     \/ maintainer.pc = "sweep" /\ maintainer.running < MaxRunTime
  /\ maintainer.redemptionTicker.due > 0
  /\ maintainer.sweepTicker.due > 0
  /\ maintainer' =
       [maintainer EXCEPT
          !.redemptionTicker.due = @ - 1,
          !.sweepTicker.due = @ - 1,
          !.running = IF maintainer.pc = "sweep" THEN @ + 1 ELSE @]
  /\ MaintainerFrame

\* The runtime sends a tick; it is dropped when one is waiting already.
SendTick(ticker) == [ticker EXCEPT !.due = ticker.d, !.C = 1]

RedemptionTick ==
  /\ maintainer.pc \in {"select", "sweep"}
  /\ maintainer.redemptionTicker.due = 0
  /\ maintainer' =
       [maintainer EXCEPT !.redemptionTicker = SendTick(@)]
  /\ MaintainerFrame

SweepTick ==
  /\ maintainer.pc \in {"select", "sweep"}
  /\ maintainer.sweepTicker.due = 0
  /\ maintainer' = [maintainer EXCEPT !.sweepTicker = SendTick(@)]
  /\ MaintainerFrame

\* The parent context is cancelled.
CancelMaintainer ==
  /\ maintainer.pc \in {"start", "select", "sweep"}
  /\ maintainer.ctx = "live"
  /\ maintainer' = [maintainer EXCEPT !.ctx = "cancelled"]
  /\ MaintainerFrame

\* case <-ctx.Done(): the loop returns and the deferred calls stop both
\* tickers.
SelectDone ==
  /\ maintainer.pc = "select"
  /\ maintainer.ctx = "cancelled"
  /\ maintainer' = [maintainer EXCEPT !.pc = "stopped"]
  /\ MaintainerFrame

\* case <-redemptionTicker.C
SelectRedemption ==
  /\ maintainer.pc = "select"
  /\ maintainer.redemptionTicker.C = 1
  /\ \E reset \in Reset(maintainer.sweepTicker, redemptionInterval) :
       maintainer' = [maintainer EXCEPT !.redemptionTicker.C = 0,
                                        !.sweepTicker = reset]
  /\ MaintainerFrame

\* case <-sweepTicker.C: runSweepTask is called.
SelectSweep ==
  /\ maintainer.pc = "select"
  /\ maintainer.sweepTicker.C = 1
  /\ maintainer' =
       [maintainer EXCEPT
          !.pc = "sweep",
          !.sweepTicker.C = 0,
          !.running = 0,
          !.runs = IF @ < MaxRuns THEN @ + 1 ELSE @,
          !.after = IF maintainer.ctx = "cancelled" THEN 1 ELSE @]
  /\ MaintainerFrame

\* runSweepTask returns, with an error or without one, and the sweep
\* ticker is reset.
SweepReturns ==
  /\ maintainer.pc = "sweep"
  /\ \E reset \in Reset(maintainer.sweepTicker, sweepInterval) :
       maintainer' = [maintainer EXCEPT !.pc = "select",
                                        !.running = 0,
                                        !.sweepTicker = reset]
  /\ MaintainerFrame

\* Initialize: the control loop's goroutine is started.
MaintainerInit ==
  /\ CoreAtRest
  /\ NoGrant
  /\ NoRewards
  /\ NoSigning
  /\ maintainer = [pc |-> "start", ctx |-> "live",
                   redemptionTicker |-> NewTicker(0),
                   sweepTicker |-> NewTicker(0),
                   runs |-> 0, running |-> 0, after |-> 0]

MaintainerNext ==
  \/ StartControlLoop
  \/ TimePasses
  \/ RedemptionTick
  \/ SweepTick
  \/ CancelMaintainer
  \/ SelectDone
  \/ SelectRedemption
  \/ SelectSweep
  \/ SweepReturns

(* Time passes and the runtime sends the ticks that are due; the loop's
   goroutine is scheduled; a select with several ready cases chooses
   among them at random, so that no case that stays or keeps becoming
   ready is passed over for ever. *)
SpecMaintainer ==
  /\ MaintainerInit
  /\ [][MaintainerNext]_vars
  /\ WF_vars(StartControlLoop)
  /\ WF_vars(TimePasses)
  /\ WF_vars(RedemptionTick)
  /\ WF_vars(SweepTick)
  /\ SF_vars(SelectDone)
  /\ SF_vars(SelectRedemption)
  /\ SF_vars(SelectSweep)
  /\ WF_vars(SweepReturns)

\* ---------------------------------------------------------------------
\* C37
\* ---------------------------------------------------------------------

Cancelled == maintainer.ctx = "cancelled"

\* While the context is live the sweep task is eventually run, and run
\* again after each run.
SweepRecurs ==
  /\ <>(Cancelled \/ maintainer.runs > 0)
  /\ \A n \in 1..(MaxRuns - 1) :
       (maintainer.runs = n) ~> (Cancelled \/ maintainer.runs > n)

\* After a run the sweep ticker's period is sweepInterval.
OncePerSweepInterval ==
  [](maintainer.runs > 0 /\ maintainer.pc = "select"
       => maintainer.sweepTicker.d = sweepInterval)

\* The redemption case leaves the sweep ticker's next tick where it was.
RedemptionKeepsSweep ==
  [][SelectRedemption
       => maintainer'.sweepTicker.due = maintainer.sweepTicker.due]_vars

\* Once the context is cancelled the loop stops, and no run of the sweep
\* task begins.
StopsWhenCancelled ==
  /\ Cancelled ~> (maintainer.pc = "stopped")
  /\ [](maintainer.after = 0)

(* C37: while its context is not cancelled the control loop eventually
   runs the sweep task and runs it again once per sweepInterval after
   each run; a redemption tick does not postpone the pending sweep run;
   after the context is cancelled the loop stops and runs no further
   task. *)
C37_MaintainerScheduling ==
  /\ SweepRecurs
  /\ OncePerSweepInterval
  /\ RedemptionKeepsSweep
  /\ StopsWhenCancelled

\* A sweep run has completed, the context is live, and a redemption tick
\* has set the sweep ticker to redemptionInterval.
C37_SweepPostponed ==
  /\ ~Cancelled
  /\ maintainer.runs > 0
  /\ maintainer.pc = "select"
  /\ maintainer.sweepTicker.d = redemptionInterval

====
